---- MODULE Spec2Model ----
(***************************************************************************)
(* typizator: runtime schemas (src/src/schemas.ts, primitive-types.ts).    *)
(* A schema is a tree of records; unbox(source, props) is computed as the  *)
(* code computes it and returns either a value or a thrown error, together *)
(* with the list of the steps the call went through.                       *)
(***************************************************************************)
EXTENDS Integers, Sequences, FiniteSets, TLC

VARIABLES
    pc,                 \* position of the caller: "ready" (call pending) or "done"
    schema,             \* the schema unbox is called on
    source,             \* first argument of unbox
    props,              \* second argument of unbox (UnboxingProperties)
    result,             \* what the call returned or threw
    now,                \* the value Date.now() returns
    heap,               \* every ObjectSImpl / ArraySImpl / DictionarySImpl constructed
    objectStore,        \* ObjectFactory.#store      : signature -> instance
    arrayStore,         \* ArrayFactory.#store       : signature -> instance
    dictionaryStore,    \* DictionaryFactory.#store  : signature -> instance
    calls,              \* the factory calls made so far, with what each returned
    facades             \* the #notNull / #optional fields set: <<instance, view>> -> facade

vars == <<pc, schema, source, props, result, now, heap,
          objectStore, arrayStore, dictionaryStore, calls, facades>>

RECURSIVE JSToString(_), JoinValues(_, _), StringifyEntries(_, _),
          StringifyElements(_, _), JSONBigStringify(_)
RECURSIVE GetSchemaSignature(_), GetTypeSchemaSignature(_), JoinFieldSignatures(_, _)
RECURSIVE HasDefaultRule(_)
RECURSIVE BaseOf(_), Composed(_, _, _, _)
RECURSIVE Flatten(_)
RECURSIVE Nodes(_)
RECURSIVE Metadata(_), Unbox(_, _, _), Convert(_, _, _),
          TypeSchema_unbox(_, _, _), NotNullFacadeImpl_unbox(_, _, _),
          OptionalFacadeImpl_unbox(_, _, _), ByDefaultFacadeImpl_unbox(_, _, _),
          ObjectSImpl_convert(_, _, _), ArraySImpl_convert(_, _, _),
          DictionarySImpl_convert(_, _, _),
          ConvertFields(_, _, _, _, _, _), ConvertElements(_, _, _, _, _, _),
          ConvertValues(_, _, _, _, _, _)

----------------------------------------------------------------------------
(* JavaScript values                                                       *)

Null == [t |-> "null"]
Undefined == [t |-> "undefined"]
Str(s) == [t |-> "string", s |-> s]
Num(n) == [t |-> "number", n |-> n]
BigIntV(n) == [t |-> "bigint", b |-> n]
Bool(b) == [t |-> "boolean", bool |-> b]
DateV(ts) == [t |-> "date", ts |-> ts]
\* an object is its own enumerable properties, in property order
Obj(entries) == [t |-> "object", entries |-> entries]
Arr(elements) == [t |-> "array", elements |-> elements]
Entry(key, value) == [key |-> key, value |-> value]

NaN == [nan |-> TRUE]
Finite(n) == [nan |-> FALSE, n |-> n]

\* A number with a fractional part or beyond 2^31 is held as
\* hi * Limb + n + tenths / 10 with 0 <= n < Limb and tenths in 0..9 (so -2.5
\* is -3 + 5/10); inf is 1 for Infinity, -1 for -Infinity. A bigint beyond
\* 2^31 is held as hi * Limb + b.
Limb == 2^27
Real(hi, lo, tenths) == [t |-> "number", n |-> lo, hi |-> hi, tenths |-> tenths, inf |-> 0]
Infinity(sign) == [t |-> "number", n |-> 0, hi |-> 0, tenths |-> 0, inf |-> sign]
BigWide(hi, lo) == [t |-> "bigint", b |-> lo, hi |-> hi]

\* the parts of a number or bigint held either way
Hi(x) ==
    IF "hi" \in DOMAIN x THEN x.hi
    ELSE (IF "b" \in DOMAIN x THEN x.b ELSE x.n) \div Limb
Lo(x) ==
    IF "hi" \in DOMAIN x THEN (IF "b" \in DOMAIN x THEN x.b ELSE x.n)
    ELSE (IF "b" \in DOMAIN x THEN x.b ELSE x.n) % Limb
Tenths(x) == IF "tenths" \in DOMAIN x THEN x.tenths ELSE 0
Inf(x) == IF "inf" \in DOMAIN x THEN x.inf ELSE 0

\* the number hi * Limb + lo + tenths / 10, held the short way when it fits
MakeFinite(hi, lo, tenths) ==
    LET h == hi + (lo \div Limb)
        l == lo % Limb
    IN IF tenths = 0 /\ h \in -8..7 THEN Finite(h * Limb + l)
       ELSE [nan |-> FALSE, n |-> l, hi |-> h, tenths |-> tenths, inf |-> 0]

MakeBigInt(hi, lo) ==
    IF hi \in -8..7 THEN BigIntV(hi * Limb + lo) ELSE BigWide(hi, lo)

\* a number value as the result of a coercion, and back
FiniteOf(v) ==
    IF "hi" \notin DOMAIN v THEN Finite(v.n)
    ELSE [nan |-> FALSE, n |-> v.n, hi |-> v.hi, tenths |-> v.tenths, inf |-> v.inf]
NumberOf(f) ==
    IF "hi" \notin DOMAIN f THEN Num(f.n)
    ELSE [t |-> "number", n |-> f.n, hi |-> f.hi, tenths |-> f.tenths, inf |-> f.inf]

\* Number.isInteger, Math.round (the nearest integer, a half going up) and
\* Number.isSafeInteger (within -(2^53 - 1) .. 2^53 - 1)
IsInteger(f) == Inf(f) = 0 /\ Tenths(f) = 0
MathRound(f) ==
    IF Inf(f) # 0 THEN f
    ELSE MakeFinite(Hi(f), Lo(f) + (IF Tenths(f) >= 5 THEN 1 ELSE 0), 0)
IsSafeInteger(f) ==
    /\ IsInteger(f)
    /\ Hi(f) < 2^26
    /\ Hi(f) > -(2^26) \/ (Hi(f) = -(2^26) /\ Lo(f) >= 1)

IsString(v) == v.t = "string"

Keys(obj) == {obj.entries[i].key : i \in DOMAIN obj.entries}

HasKey(obj, key) == key \in Keys(obj)

ValueOf(obj, key) ==
    LET i == CHOOSE j \in DOMAIN obj.entries : obj.entries[j].key = key
    IN obj.entries[i].value

\* sourceConverted[key] for a value that is not null or undefined: an own
\* property of an object, undefined for everything else (the keys used here
\* are no array indices and no prototype property names)
GetProperty(v, key) ==
    IF v.t = "object" /\ HasKey(v, key) THEN ValueOf(v, key) ELSE Undefined

\* obj[key] = value: an existing key keeps its place, a new one is appended
SetProperty(obj, key, value) ==
    IF HasKey(obj, key)
    THEN Obj([i \in DOMAIN obj.entries |->
                 IF obj.entries[i].key = key THEN Entry(key, value) ELSE obj.entries[i]])
    ELSE Obj(Append(obj.entries, Entry(key, value)))

----------------------------------------------------------------------------
(* Results of a call: a returned value or a thrown error, and the steps    *)
(* taken (each call made, each throw, each catch), in order.               *)

Step(ev, at) == [ev |-> ev, at |-> at]
Returned(value, log) == [ok |-> TRUE, value |-> value, log |-> log]
Thrown(error, log) == [ok |-> FALSE, error |-> error, log |-> log]
Error(class, message) == [class |-> class, message |-> message]

NullNotAllowedError == Error("NullNotAllowedError", "Null not allowed")
IntOutOfBoundsError == Error("IntOutOfBoundsError", "Integer out of bounds")
InvalidNumberError == Error("InvalidNumberError", "Invalid number")
InvalidDateError == Error("InvalidDateError", "Invalid date")
InvalidBooleanError == Error("InvalidBooleanError", "Invalid boolean")
FieldMissingError == Error("FieldMissingError", "Field missing")
JSONArrayNotFoundError == Error("JSONArrayNotFoundError", "JSON Array not found")
SourceNotObjectError == Error("SourceNotObjectError", "Source is not an object")

\* throw new X(): the step list records where the error was born
Throw(error, log) == Thrown(error, Append(log, Step("throw", error.class)))

----------------------------------------------------------------------------
(* The JavaScript built-ins the conversions call, on the values used here  *)

\* Number.prototype.toString and BigInt.prototype.toString
NumberToString(v) ==
    CASE "hi" \notin DOMAIN v -> ToString(v.n)
      [] v = Real(0, 3, 9) -> "3.9"
      [] v = Real(0, 6, 1) -> "6.1"
      [] v = Real(0, 2, 5) -> "2.5"
      [] v = Real(0, 42, 5) -> "42.5"
      [] v = Real(-1, Limb - 3, 5) -> "-2.5"
      [] v = Real(-1, Limb - 1, 5) -> "-0.5"
      [] v = Real(2^26 - 1, Limb - 1, 0) -> "9007199254740991"
      [] v = Real(2^26, 0, 0) -> "9007199254740992"
      [] v = Real(-(2^26), 1, 0) -> "-9007199254740991"
      [] v = Real(-(2^26), 0, 0) -> "-9007199254740992"
      [] v = Real(2^30, 0, 0) -> "144115188075855870"
      [] v = Infinity(1) -> "Infinity"
      [] v = Infinity(-1) -> "-Infinity"

BigIntToString(v) ==
    CASE "hi" \notin DOMAIN v -> ToString(v.b)
      [] v = BigWide(2^26 - 1, Limb - 1) -> "9007199254740991"
      [] v = BigWide(2^26, 0) -> "9007199254740992"
      [] v = BigWide(-(2^26), 0) -> "-9007199254740992"
      [] v = BigWide(2^30, 0) -> "144115188075855872"

\* String(v), as `${v}` computes it
JSToString(v) ==
    CASE v.t = "string" -> v.s
      [] v.t = "number" -> NumberToString(v)
      [] v.t = "bigint" -> BigIntToString(v)
      [] v.t = "boolean" -> IF v.bool THEN "true" ELSE "false"
      [] v.t = "null" -> "null"
      [] v.t = "undefined" -> "undefined"
      [] v.t = "object" -> "[object Object]"
      [] v.t = "array" -> JoinValues(v.elements, 1)
      [] v.t = "date" -> IF v.ts = 0 THEN "Thu Jan 01 1970 00:00:00 GMT+0000 (Coordinated Universal Time)"
                         ELSE "Fri Jan 02 1970 00:00:00 GMT+0000 (Coordinated Universal Time)"

\* Array.prototype.join(","): null and undefined elements give ""
JoinValues(elements, i) ==
    IF i > Len(elements) THEN ""
    ELSE (IF elements[i].t \in {"null", "undefined"} THEN "" ELSE JSToString(elements[i]))
         \o (IF i < Len(elements) THEN "," ELSE "")
         \o JoinValues(elements, i + 1)

\* StringToNumber on the strings that occur
ParseNumber(s) ==
    CASE s \in {"", "0"} -> Finite(0)
      [] s = "1" -> Finite(1)
      [] s = "2" -> Finite(2)
      [] s = "5" -> Finite(5)
      [] s = "42" -> Finite(42)
      [] s = "-1" -> Finite(-1)
      [] s = "4" -> Finite(4)
      [] s \in {"42.", "42.00000"} -> Finite(42)
      [] s = "0x42" -> Finite(66)
      [] s = "3.9" -> MakeFinite(0, 3, 9)
      [] s = "6.1" -> MakeFinite(0, 6, 1)
      [] s = "2.5" -> MakeFinite(0, 2, 5)
      [] s = "42.5" -> MakeFinite(0, 42, 5)
      [] s = "-2.5" -> MakeFinite(-1, Limb - 3, 5)
      [] s = "-0.5" -> MakeFinite(-1, Limb - 1, 5)
      [] s = "9007199254740991" -> MakeFinite(2^26 - 1, Limb - 1, 0)
      [] s = "9007199254740992" -> MakeFinite(2^26, 0, 0)
      [] s = "-9007199254740991" -> MakeFinite(-(2^26), 1, 0)
      [] s = "-9007199254740992" -> MakeFinite(-(2^26), 0, 0)
      [] s = "144115188075855872" -> MakeFinite(2^30, 0, 0)
      [] s = "Infinity" -> FiniteOf(Infinity(1))
      [] s = "-Infinity" -> FiniteOf(Infinity(-1))
      [] OTHER -> NaN

\* StringToBigInt on the strings that occur: decimal and hexadecimal integer
\* literals only, anything else has no value
ParseBigInt(s) ==
    CASE s \in {"", "0"} -> Finite(0)
      [] s = "1" -> Finite(1)
      [] s = "2" -> Finite(2)
      [] s = "4" -> Finite(4)
      [] s = "5" -> Finite(5)
      [] s = "42" -> Finite(42)
      [] s = "-1" -> Finite(-1)
      [] s = "0x42" -> Finite(66)
      [] s = "9007199254740991" -> MakeFinite(2^26 - 1, Limb - 1, 0)
      [] s = "9007199254740992" -> MakeFinite(2^26, 0, 0)
      [] s = "-9007199254740991" -> MakeFinite(-(2^26), 1, 0)
      [] s = "-9007199254740992" -> MakeFinite(-(2^26), 0, 0)
      [] s = "144115188075855872" -> MakeFinite(2^30, 0, 0)
      [] OTHER -> NaN

\* Number(v); the bigints used are all values a number holds exactly
JSNumber(v) ==
    CASE v.t = "number" -> FiniteOf(v)
      [] v.t = "bigint" -> MakeFinite(Hi(v), Lo(v), 0)
      [] v.t = "boolean" -> IF v.bool THEN Finite(1) ELSE Finite(0)
      [] v.t = "null" -> Finite(0)
      [] v.t = "undefined" -> NaN
      [] v.t = "date" -> Finite(v.ts)
      [] v.t = "string" -> ParseNumber(v.s)
      [] v.t \in {"object", "array"} -> ParseNumber(JSToString(v))

\* BigInt(v): the bigint, or the error it throws
JSBigInt(v) ==
    CASE v.t = "bigint" -> Returned(v, <<>>)
      [] v.t = "number" ->
            IF IsInteger(v) THEN Returned(MakeBigInt(Hi(v), Lo(v)), <<>>)
            ELSE Throw(Error("RangeError", "The number " \o NumberToString(v)
                        \o " cannot be converted to a BigInt because it is not an integer"),
                       <<>>)
      [] v.t = "boolean" -> Returned(BigIntV(IF v.bool THEN 1 ELSE 0), <<>>)
      [] v.t = "date" -> Returned(BigIntV(v.ts), <<>>)
      [] v.t \in {"null", "undefined"} ->
            Throw(Error("TypeError", "Cannot convert " \o JSToString(v) \o " to a BigInt"), <<>>)
      [] v.t \in {"string", "object", "array"} ->
            LET s == JSToString(v)
                n == ParseBigInt(s)
            IN IF n.nan
               THEN Throw(Error("SyntaxError", "Cannot convert " \o s \o " to a BigInt"), <<>>)
               ELSE Returned(MakeBigInt(Hi(n), Lo(n)), <<>>)

\* Date.parse on the strings that occur: a timestamp or NaN
DateParse(s) ==
    CASE s = "1970-01-01" -> Finite(0)
      [] s = "1970-01-02" -> Finite(86400000)
      [] OTHER -> NaN

\* JSONBig.parse on the texts that occur: the value, or a SyntaxError
JSONBigParse(s) ==
    CASE s = "null" -> Returned(Null, <<>>)
      [] s = "true" -> Returned(Bool(TRUE), <<>>)
      [] s = "0" -> Returned(Num(0), <<>>)
      [] s = "1" -> Returned(Num(1), <<>>)
      [] s = "42" -> Returned(Num(42), <<>>)
      [] s = "-1" -> Returned(Num(-1), <<>>)
      [] s = "{}" -> Returned(Obj(<<>>), <<>>)
      [] s = "[]" -> Returned(Arr(<<>>), <<>>)
      [] s = "{\"id\":1}" -> Returned(Obj(<<Entry("id", Num(1))>>), <<>>)
      [] s = "{\"id\":null,\"name\":1}" ->
            Returned(Obj(<<Entry("id", Null), Entry("name", Num(1))>>), <<>>)
      [] s = "{\"id\":\"1\",\"name\":\"Any name\"}" ->
            Returned(Obj(<<Entry("id", Str("1")), Entry("name", Str("Any name"))>>), <<>>)
      [] s = "[{\"name\":null}]" -> Returned(Arr(<<Obj(<<Entry("name", Null)>>)>>), <<>>)
      [] s = "[1,\"abc\"]" -> Returned(Arr(<<Num(1), Str("abc")>>), <<>>)
      [] OTHER -> Throw(Error("SyntaxError", "Unexpected token in JSON"), <<>>)

\* `${JSONBig.stringify(v)}`: stringify returns undefined for undefined, which
\* the template prints as "undefined"
JSONBigStringify(v) ==
    CASE v.t = "undefined" -> "undefined"
      [] v.t = "null" -> "null"
      [] v.t = "string" -> "\"" \o v.s \o "\""
      [] v.t = "number" -> NumberToString(v)
      [] v.t = "bigint" -> BigIntToString(v)
      [] v.t = "boolean" -> IF v.bool THEN "true" ELSE "false"
      [] v.t = "date" -> IF v.ts = 0 THEN "\"1970-01-01T00:00:00.000Z\""
                         ELSE "\"1970-01-02T00:00:00.000Z\""
      [] v.t = "array" -> "[" \o StringifyElements(v.elements, 1) \o "]"
      [] v.t = "object" -> "{" \o StringifyEntries(v.entries, TRUE) \o "}"

\* array elements: undefined is written as null
StringifyElements(elements, i) ==
    IF i > Len(elements) THEN ""
    ELSE (IF elements[i].t = "undefined" THEN "null" ELSE JSONBigStringify(elements[i]))
         \o (IF i < Len(elements) THEN "," ELSE "")
         \o StringifyElements(elements, i + 1)

\* object properties: one whose value is undefined is left out
StringifyEntries(entries, first) ==
    IF entries = <<>> THEN ""
    ELSE LET e == Head(entries)
         IN IF e.value.t = "undefined" THEN StringifyEntries(Tail(entries), first)
            ELSE (IF first THEN "" ELSE ",")
                 \o "\"" \o e.key \o "\":" \o JSONBigStringify(e.value)
                 \o StringifyEntries(Tail(entries), FALSE)

----------------------------------------------------------------------------
(* Schemas: the base schemas and the facades around them                   *)

Primitive(dataType) == [kind |-> "primitive", dataType |-> dataType]
bigintS == Primitive("bigint")
stringS == Primitive("string")
intS == Primitive("int")
floatS == Primitive("float")
dateS == Primitive("date")
boolS == Primitive("bool")

\* a definition is the list of its fields, in the order they were declared
Field(key, fieldSchema) == [key |-> key, schema |-> fieldSchema]
ObjectSImpl(definition) == [kind |-> "object", definition |-> definition]
ArraySImpl(elements) == [kind |-> "array", elements |-> elements]
DictionarySImpl(values) == [kind |-> "dictionary", values |-> values]
recursiveS == [kind |-> "recursive"]

NotNullFacadeImpl(internal) == [kind |-> "notNull", internal |-> internal]
OptionalFacadeImpl(internal) == [kind |-> "optional", internal |-> internal]
ByDefaultFacadeImpl(internal, target, condition) ==
    [kind |-> "byDefault", internal |-> internal, target |-> target, condition |-> condition]

\* the three forms of byDefault's first argument
TargetValue(value) == [type |-> "value", value |-> value]
TargetFunction(name) == [type |-> "function", name |-> name]
TargetError(message) == [type |-> "error", message |-> message]

\* byDefault's second argument when none is given
DefaultCondition == "nullOrUndefined"

IsBase(s) == s.kind \in {"primitive", "object", "array", "dictionary"}

\* the metadata with a NotNull facade that copies the flags of what it wraps
Metadata_NotNullCopies(s) ==
    CASE s.kind = "primitive" ->
            [dataType |-> s.dataType, notNull |-> FALSE, optional |-> FALSE, hasDefaultRule |-> FALSE]
      [] s.kind \in {"object", "array", "dictionary"} ->
            [dataType |-> s.kind, notNull |-> FALSE, optional |-> FALSE, hasDefaultRule |-> FALSE]
      [] s.kind = "recursive" ->
            [dataType |-> "recursive", notNull |-> FALSE, optional |-> TRUE, hasDefaultRule |-> FALSE]
      [] s.kind = "notNull" -> Metadata(s.internal)
      [] s.kind = "optional" ->
            [Metadata(s.internal) EXCEPT !.notNull = FALSE, !.optional = TRUE]
      [] s.kind = "byDefault" ->
            [Metadata(s.internal) EXCEPT !.hasDefaultRule = TRUE]

Metadata(s) ==
    CASE s.kind = "primitive" ->
            [dataType |-> s.dataType, notNull |-> FALSE, optional |-> FALSE, hasDefaultRule |-> FALSE]
      [] s.kind \in {"object", "array", "dictionary"} ->
            [dataType |-> s.kind, notNull |-> FALSE, optional |-> FALSE, hasDefaultRule |-> FALSE]
      [] s.kind = "recursive" ->
            [dataType |-> "recursive", notNull |-> FALSE, optional |-> TRUE, hasDefaultRule |-> FALSE]
      [] s.kind = "notNull" ->
            [Metadata(s.internal) EXCEPT !.notNull = TRUE, !.optional = FALSE]
      [] s.kind = "optional" ->
            [Metadata(s.internal) EXCEPT !.notNull = FALSE, !.optional = TRUE]
      [] s.kind = "byDefault" ->
            [Metadata(s.internal) EXCEPT !.hasDefaultRule = TRUE]

\* Object.keys order: array-index keys first, ascending, then the others in
\* the order they were added
IndexKeys == <<"0", "1", "2">>

ObjectKeys(entries) ==
    LET present == {entries[i].key : i \in DOMAIN entries}
        IsIndex(k) == \E i \in DOMAIN IndexKeys : IndexKeys[i] = k
        Present(k) == k \in present
        NotIndex(e) == ~IsIndex(e.key)
        named == SelectSeq(entries, NotIndex)
    IN SelectSeq(IndexKeys, Present) \o [i \in DOMAIN named |-> named[i].key]

\* FieldsMapFacade.get
FieldsGet(definition, key) ==
    LET i == CHOOSE j \in DOMAIN definition : definition[j].key = key
    IN definition[i].schema

----------------------------------------------------------------------------
(* The conditions and target functions callers pass to byDefault           *)

\* condition(source): true, false, or the error the predicate throws
Condition(name, src) ==
    CASE name = "nullOrUndefined" -> Returned(src = Null \/ src = Undefined, <<>>)
      [] name = "isNull" -> Returned(src = Null, <<>>)
      [] name = "always" -> Returned(TRUE, <<>>)
      [] name = "isNegative" ->
            LET b == JSBigInt(src)
            IN IF b.ok THEN Returned(Hi(b.value) < 0, <<>>) ELSE b

\* targetCheck(source)
TargetCheck(target, src) ==
    CASE target.type = "function" -> Returned(Str("prefix-" \o JSToString(src)), <<>>)
      [] target.type = "error" -> Throw(Error("Error", target.message), <<>>)
      [] target.type = "value" -> Returned(target.value, <<>>)

----------------------------------------------------------------------------
(* Primitive conversions                                                   *)

BigintS_convert(src) == JSBigInt(src)

StringS_convert(src) ==
    IF IsString(src) THEN Returned(src, <<>>) ELSE Returned(Str(JSToString(src)), <<>>)

\* an IntS.convert that drops the fraction
IntS_convert_Truncates(src) ==
    LET converted == JSNumber(src)
    IN IF converted.nan THEN Throw(InvalidNumberError, <<>>)
       ELSE LET returned == IF IsInteger(converted) THEN converted
                            ELSE IF Inf(converted) # 0 THEN converted
                            ELSE MakeFinite(Hi(converted), Lo(converted)
                                    + (IF Hi(converted) < 0 THEN 1 ELSE 0), 0)
            IN IF ~IsSafeInteger(returned) THEN Throw(IntOutOfBoundsError, <<>>)
               ELSE Returned(NumberOf(returned), <<>>)

IntS_convert(src) ==
    LET converted == JSNumber(src)
    IN IF converted.nan THEN Throw(InvalidNumberError, <<>>)
       ELSE LET returned == IF IsInteger(converted) THEN converted
                            ELSE MathRound(converted)
            IN IF ~IsSafeInteger(returned) THEN Throw(IntOutOfBoundsError, <<>>)
               ELSE Returned(NumberOf(returned), <<>>)

FloatS_convert(src) ==
    LET converted == JSNumber(src)
    IN IF converted.nan THEN Throw(InvalidNumberError, <<>>)
       ELSE Returned(NumberOf(converted), <<>>)

DateS_convert(src) ==
    IF IsString(src)
    THEN LET timestamp == IF src.s = "" THEN Finite(now) ELSE DateParse(src.s)
         IN IF timestamp.nan THEN Throw(InvalidDateError, <<>>)
            ELSE Returned(DateV(timestamp.n), <<>>)
    ELSE Returned(src, <<>>)

BoolS_convert(src) ==
    IF IsString(src)
    THEN IF src.s \in {"true", "1"} THEN Returned(Bool(TRUE), <<>>)
         ELSE IF src.s \in {"false", "0"} THEN Returned(Bool(FALSE), <<>>)
         ELSE Throw(InvalidBooleanError, <<>>)
    ELSE IF src.t = "number"
    THEN IF src = Num(1) THEN Returned(Bool(TRUE), <<>>)
         ELSE IF src = Num(0) THEN Returned(Bool(FALSE), <<>>)
         ELSE Throw(InvalidBooleanError, <<>>)
    ELSE Returned(src, <<>>)

PrimitiveConvert(dataType, src) ==
    CASE dataType = "bigint" -> BigintS_convert(src)
      [] dataType = "string" -> StringS_convert(src)
      [] dataType = "int" -> IntS_convert(src)
      [] dataType = "float" -> FloatS_convert(src)
      [] dataType = "date" -> DateS_convert(src)
      [] dataType = "bool" -> BoolS_convert(src)

\* the result r of a callee, with the caller's steps so far put before it
After(log, r) == [r EXCEPT !.log = log \o r.log]

----------------------------------------------------------------------------
(* unbox                                                                   *)

IsNullSource(src, p) == src = Null \/ (p.keepNullString # "true" /\ src = Str("null"))

IsUndefinedSource(src, p) ==
    src = Undefined \/ (p.keepUndefinedString = "false" /\ src = Str("undefined"))

\* TypeSchema.unbox without the test for undefined
TypeSchema_unbox_NoFieldMissing(s, src, p) ==
    LET log == <<Step("unbox", s.kind)>>
    IN IF IsNullSource(src, p) THEN Returned(Null, log)
       ELSE After(log, Convert(s, src, p))

\* TypeSchema.unbox with the "undefined" string taken for absence unless
\* keepUndefinedString is true (!== true in place of === false)
TypeSchema_unbox_UndefinedByDefault(s, src, p) ==
    LET log == <<Step("unbox", s.kind)>>
    IN IF IsNullSource(src, p) THEN Returned(Null, log)
       ELSE IF src = Undefined \/ (p.keepUndefinedString # "true" /\ src = Str("undefined"))
       THEN Throw(FieldMissingError, log)
       ELSE After(log, Convert(s, src, p))

\* TypeSchema.unbox, shared by the primitives, objects, arrays and dictionaries
TypeSchema_unbox(s, src, p) ==
    LET log == <<Step("unbox", s.kind)>>
    IN IF IsNullSource(src, p) THEN Returned(Null, log)
       ELSE IF IsUndefinedSource(src, p) THEN Throw(FieldMissingError, log)
       ELSE After(log, Convert(s, src, p))

\* this.convert(source, props)
Convert(s, src, p) ==
    LET log == <<Step("convert", Metadata(s).dataType)>>
    IN CASE s.kind = "primitive" -> After(log, PrimitiveConvert(s.dataType, src))
         [] s.kind = "object" -> After(log, ObjectSImpl_convert(s, src, p))
         [] s.kind = "array" -> After(log, ArraySImpl_convert(s, src, p))
         [] s.kind = "dictionary" -> After(log, DictionarySImpl_convert(s, src, p))

\* NotNullFacadeImpl.unbox without its null test
NotNullFacadeImpl_unbox_NoNullTest(s, src, p) ==
    After(<<Step("unbox", "notNull")>>, Unbox(s.internal, src, p))

NotNullFacadeImpl_unbox(s, src, p) ==
    LET log == <<Step("unbox", "notNull")>>
    IN IF IsNullSource(src, p) THEN Throw(NullNotAllowedError, log)
       ELSE After(log, Unbox(s.internal, src, p))

\* OptionalFacadeImpl.unbox without the test before the try block
OptionalFacadeImpl_unbox_NoShortCircuit(s, src, p) ==
    LET r == After(<<Step("unbox", "optional")>>, Unbox(s.internal, src, p))
    IN IF r.ok THEN r
       ELSE IF src = Undefined
            THEN Returned(Undefined, Append(r.log, Step("suppress", src.t)))
            ELSE r

\* OptionalFacadeImpl.unbox returning undefined for an absent source whether
\* or not the wrapped schema has a default rule
OptionalFacadeImpl_unbox_IgnoresDefaultRule(s, src, p) ==
    LET log == <<Step("unbox", "optional")>>
    IN IF IsUndefinedSource(src, p)
       THEN Returned(Undefined, log)
       ELSE After(log, Unbox(s.internal, src, p))

\* OptionalFacadeImpl.unbox with a catch block that returns undefined for
\* every error
OptionalFacadeImpl_unbox_SuppressAll(s, src, p) ==
    LET log == <<Step("unbox", "optional")>>
    IN IF ~Metadata(s).hasDefaultRule /\ IsUndefinedSource(src, p)
       THEN Returned(Undefined, log)
       ELSE LET r == After(log, Unbox(s.internal, src, p))
            IN IF r.ok THEN r
               ELSE Returned(Undefined, Append(r.log, Step("suppress", src.t)))

\* OptionalFacadeImpl.unbox with a catch block that also returns undefined
\* when the source is null (source == undefined in place of ===)
OptionalFacadeImpl_unbox_SuppressNull(s, src, p) ==
    LET log == <<Step("unbox", "optional")>>
    IN IF ~Metadata(s).hasDefaultRule /\ IsUndefinedSource(src, p)
       THEN Returned(Undefined, log)
       ELSE LET r == After(log, Unbox(s.internal, src, p))
            IN IF r.ok THEN r
               ELSE IF src = Undefined \/ src = Null
                    THEN Returned(Undefined, Append(r.log, Step("suppress", src.t)))
                    ELSE r

\* OptionalFacadeImpl.unbox with a catch block that reads the string
\* "undefined" as an absent source, as the short-circuit does
OptionalFacadeImpl_unbox_SuppressUndefinedString(s, src, p) ==
    LET log == <<Step("unbox", "optional")>>
    IN IF ~Metadata(s).hasDefaultRule /\ IsUndefinedSource(src, p)
       THEN Returned(Undefined, log)
       ELSE LET r == After(log, Unbox(s.internal, src, p))
            IN IF r.ok THEN r
               ELSE IF IsUndefinedSource(src, p)
                    THEN Returned(Undefined, Append(r.log, Step("suppress", src.t)))
                    ELSE r

OptionalFacadeImpl_unbox(s, src, p) ==
    LET log == <<Step("unbox", "optional")>>
    IN IF ~Metadata(s).hasDefaultRule /\ IsUndefinedSource(src, p)
       THEN Returned(Undefined, log)
       ELSE LET r == After(log, Unbox(s.internal, src, p))
            IN IF r.ok THEN r
               ELSE IF src = Undefined
                    THEN Returned(Undefined, Append(r.log, Step("suppress", src.t)))
                    ELSE r

\* ByDefaultFacadeImpl.unbox handing null and undefined to the wrapped schema
\* before it looks at the condition
ByDefaultFacadeImpl_unbox_NullFirst(s, src, p) ==
    LET log == <<Step("unbox", "byDefault")>>
        c == After(Append(log, Step("condition", s.condition)), Condition(s.condition, src))
    IN IF IsNullSource(src, p) \/ IsUndefinedSource(src, p)
       THEN After(log, Unbox(s.internal, src, p))
       ELSE IF ~c.ok THEN c
       ELSE IF c.value
            THEN After(Append(c.log, Step("target", s.target.type)), TargetCheck(s.target, src))
            ELSE After(c.log, Unbox(s.internal, src, p))

\* ByDefaultFacadeImpl.unbox applying the base contract's reading of "null"
\* and "undefined" to the source before it evaluates the condition
ByDefaultFacadeImpl_unbox_ContractFirst(s, src, p) ==
    LET log == <<Step("unbox", "byDefault"), Step("condition", s.condition)>>
        raw == IF IsNullSource(src, p) THEN Null
               ELSE IF IsUndefinedSource(src, p) THEN Undefined ELSE src
        c == After(log, Condition(s.condition, raw))
    IN IF ~c.ok THEN c
       ELSE IF c.value
            THEN After(Append(log, Step("target", s.target.type)), TargetCheck(s.target, raw))
            ELSE After(log, Unbox(s.internal, src, p))

ByDefaultFacadeImpl_unbox(s, src, p) ==
    LET log == <<Step("unbox", "byDefault"), Step("condition", s.condition)>>
        c == After(log, Condition(s.condition, src))
    IN IF ~c.ok THEN c
       ELSE IF c.value
            THEN After(Append(log, Step("target", s.target.type)), TargetCheck(s.target, src))
            ELSE After(log, Unbox(s.internal, src, p))

\* recursiveS.unbox
RecursiveS_unbox(s, src, p) ==
    Throw(Error("Error", "Recursive schema cannot be unboxed directly"),
          <<Step("unbox", "recursive")>>)

\* schema.unbox(source, props), whatever the schema is
Unbox(s, src, p) ==
    CASE IsBase(s) -> TypeSchema_unbox(s, src, p)
      [] s.kind = "notNull" -> NotNullFacadeImpl_unbox(s, src, p)
      [] s.kind = "optional" -> OptionalFacadeImpl_unbox(s, src, p)
      [] s.kind = "byDefault" -> ByDefaultFacadeImpl_unbox(s, src, p)
      [] s.kind = "recursive" -> RecursiveS_unbox(s, src, p)

----------------------------------------------------------------------------
(* Structured conversions                                                  *)

\* typeof source === "string" ? JSONBig.parse(source) : source
SourceConverted(src) == IF IsString(src) THEN JSONBigParse(src.s) ELSE Returned(src, <<>>)

\* the rethrown error without the message of the error that was caught
Rewrap_NoCause(what, raw, inner) ==
    Error("Error", "Unboxing " \o what \o ", value: " \o JSONBigStringify(raw))

\* the error the structured schemas throw in place of a child's error
Rewrap(what, raw, inner) ==
    Error("Error", "Unboxing " \o what \o ", value: " \o JSONBigStringify(raw)
                   \o ": " \o inner.message)

\* convertedObject[key] = unboxedField without the test for undefined
AssignField_Always(convertedObject, key, unboxedField) ==
    SetProperty(convertedObject, key, unboxedField)

\* if (unboxedField === undefined) return; convertedObject[key] = unboxedField
AssignField(convertedObject, key, unboxedField) ==
    IF unboxedField = Undefined THEN convertedObject
    ELSE SetProperty(convertedObject, key, unboxedField)

\* fields.forEach calling the unbox of the field's schema for every field, the
\* recursive placeholder included
ConvertFields_PlaceholderUnbox(self, keys, sourceConverted, p, convertedObject, log) ==
    IF keys = <<>> THEN Returned(convertedObject, log)
    ELSE
    LET key == Head(keys)
        boxedField == GetProperty(sourceConverted, key)
        r == Unbox(FieldsGet(self.definition, key), boxedField, p)
    IN IF ~r.ok
       THEN Thrown(Rewrap(key, boxedField, r.error),
                   Append(log \o r.log, Step("rethrow", "object")))
       ELSE ConvertFields(self, Tail(keys), sourceConverted, p,
                          AssignField(convertedObject, key, r.value), log \o r.log)

\* fields.forEach going on after a field has failed, the last error winning
ConvertFields_GoesOn(self, keys, sourceConverted, p, convertedObject, log) ==
    IF keys = <<>> THEN Returned(convertedObject, log)
    ELSE
    LET key == Head(keys)
        boxedField == GetProperty(sourceConverted, key)
        r == Unbox(FieldsGet(self.definition, key), boxedField, p)
        rest == ConvertFields(self, Tail(keys), sourceConverted, p,
                              IF r.ok THEN AssignField(convertedObject, key, r.value)
                              ELSE convertedObject, log \o r.log)
    IN IF r.ok \/ ~rest.ok THEN rest
       ELSE Thrown(Rewrap(key, boxedField, r.error),
                   Append(rest.log, Step("rethrow", "object")))

\* the body of fields.forEach, from the first of `keys` on
ConvertFields(self, keys, sourceConverted, p, convertedObject, log) ==
    IF keys = <<>> THEN Returned(convertedObject, log)
    ELSE
    LET key == Head(keys)
        fieldSchema == FieldsGet(self.definition, key)
    IN IF sourceConverted.t \in {"null", "undefined"}
       \* sourceConverted[key] throws, in the try block and again in the catch block
       THEN Throw(Error("TypeError", "Cannot read properties of " \o sourceConverted.t
                                     \o " (reading '" \o key \o "')"), log)
       ELSE
       LET boxedField == GetProperty(sourceConverted, key)
           skipped == Metadata(fieldSchema).dataType = "recursive"
                      /\ (boxedField = Undefined \/ boxedField = Null)
           r == IF Metadata(fieldSchema).dataType = "recursive"
                THEN Unbox(self, boxedField, p)
                ELSE Unbox(fieldSchema, boxedField, p)
       IN IF skipped
          THEN ConvertFields(self, Tail(keys), sourceConverted, p, convertedObject, log)
          ELSE IF ~r.ok
          THEN Thrown(Rewrap(key, boxedField, r.error),
                      Append(log \o r.log, Step("rethrow", "object")))
          ELSE ConvertFields(self, Tail(keys), sourceConverted, p,
                             AssignField(convertedObject, key, r.value), log \o r.log)

ObjectSImpl_convert(self, src, p) ==
    LET parsed == SourceConverted(src)
    IN IF ~parsed.ok THEN parsed
       ELSE ConvertFields(self, ObjectKeys(self.definition), parsed.value, p, Obj(<<>>), <<>>)

\* sourceConverted.map leaving out the elements whose conversion fails
ConvertElements_SkipFailed(self, sourceConverted, idx, p, converted, log) ==
    IF idx > Len(sourceConverted.elements) THEN Returned(Arr(converted), log)
    ELSE
    LET r == Unbox(self.elements, sourceConverted.elements[idx], p)
    IN ConvertElements(self, sourceConverted, idx + 1, p,
                       IF r.ok THEN Append(converted, r.value) ELSE converted, log \o r.log)

\* the body of sourceConverted.map, from element idx (counted from 1) on
ConvertElements(self, sourceConverted, idx, p, converted, log) ==
    IF idx > Len(sourceConverted.elements) THEN Returned(Arr(converted), log)
    ELSE
    LET element == sourceConverted.elements[idx]
        r == Unbox(self.elements, element, p)
    IN IF ~r.ok
       THEN Thrown(Rewrap("array element " \o ToString(idx - 1), element, r.error),
                   Append(log \o r.log, Step("rethrow", "array")))
       ELSE ConvertElements(self, sourceConverted, idx + 1, p,
                            Append(converted, r.value), log \o r.log)

\* ArraySImpl.convert taking what is not an array for an empty one
ArraySImpl_convert_NoArrayTest(self, src, p) ==
    LET parsed == SourceConverted(src)
    IN IF ~parsed.ok THEN parsed
       ELSE IF parsed.value.t # "array" THEN Returned(Arr(<<>>), <<>>)
       ELSE ConvertElements(self, parsed.value, 1, p, <<>>, <<>>)

ArraySImpl_convert(self, src, p) ==
    LET parsed == SourceConverted(src)
    IN IF ~parsed.ok THEN parsed
       ELSE IF parsed.value.t # "array" THEN Throw(JSONArrayNotFoundError, <<>>)
       ELSE ConvertElements(self, parsed.value, 1, p, <<>>, <<>>)

\* the body of Object.keys(sourceConverted).reduce, from the first of `keys` on
ConvertValues(self, keys, sourceConverted, p, accumulator, log) ==
    IF keys = <<>> THEN Returned(accumulator, log)
    ELSE
    LET key == Head(keys)
        raw == GetProperty(sourceConverted, key)
        r == Unbox(self.values, raw, p)
    IN IF ~r.ok
       THEN Thrown(Rewrap("dictionary element " \o key, raw, r.error),
                   Append(log \o r.log, Step("rethrow", "dictionary")))
       ELSE ConvertValues(self, Tail(keys), sourceConverted, p,
                          SetProperty(accumulator, key, r.value), log \o r.log)

DictionarySImpl_convert(self, src, p) ==
    LET parsed == SourceConverted(src)
    IN IF ~parsed.ok THEN parsed
       \* typeof x !== "object" || Array.isArray(x); typeof null and typeof a Date are "object"
       ELSE IF parsed.value.t \notin {"object", "null", "date"}
       THEN Throw(SourceNotObjectError, <<>>)
       ELSE IF parsed.value.t = "null"
       THEN Throw(Error("TypeError", "Cannot convert undefined or null to object"), <<>>)
       ELSE IF parsed.value.t = "date" THEN Returned(Obj(<<>>), <<>>)
       ELSE ConvertValues(self, ObjectKeys(parsed.value.entries), parsed.value, p,
                          Obj(<<>>), <<>>)

----------------------------------------------------------------------------
(* The schemas and the sources the calls are made with                     *)

MaxArrayLen == 2

Flags == {"unset", "true", "false"}
PropsSet == [keepNullString : Flags, keepUndefinedString : Flags]
NoProps == [keepNullString |-> "unset", keepUndefinedString |-> "unset"]

FieldValues == {Null, Undefined, Num(1), Str("abc")}

\* an object with any of the keys id, name, extra
ObjectSources ==
    LET absent == [t |-> "absent"]
        Prop(key, v) == IF v = absent THEN <<>> ELSE <<Entry(key, v)>>
    IN {Obj(Prop("id", a) \o Prop("name", b) \o Prop("extra", c)) :
            a \in FieldValues \cup {absent},
            b \in FieldValues \cup {absent},
            c \in {absent, Num(42)}}

NestedSources ==
    {Obj(<<Entry("name", Str("abc")), Entry("child", Obj(<<Entry("name", Str("1"))>>))>>),
     Obj(<<Entry("name", Str("abc")), Entry("child", Obj(<<Entry("name", Null)>>))>>),
     Obj(<<Entry("name", Str("abc")), Entry("child", Null)>>),
     Obj(<<Entry("name", Str("abc")), Entry("child", Str("null"))>>),
     Obj(<<Entry("name", Str("a")),
           Entry("child", Obj(<<Entry("name", Str("b")),
                                Entry("child", Obj(<<Entry("name", Str("c"))>>))>>))>>),
     Obj(<<Entry("name", Num(-1)), Entry("id", Str("abc"))>>),
     Obj(<<Entry("id", Num(-1)), Entry("name", Str("undefined"))>>),
     Arr(<<Obj(<<Entry("name", Null)>>)>>),
     Arr(<<Obj(<<Entry("name", Str("abc"))>>), Obj(<<>>)>>)}

ArraySources ==
    {Arr(a) : a \in UNION {[1..n -> FieldValues] : n \in 0..MaxArrayLen}}

LeafSources ==
    {Null, Undefined, Str("null"), Str("undefined"), Str("abc"), Str("1"), Str("true"),
     Str(""), Str("-1"), Str("1970-01-02"), Num(0), Num(1), Num(42), Num(-1),
     BigIntV(5), Bool(TRUE), Bool(FALSE), DateV(0)}

JSONSources ==
    {Str("{}"), Str("[]"), Str("{\"id\":1}"), Str("{\"id\":null,\"name\":1}"),
     Str("{\"id\":\"1\",\"name\":\"Any name\"}"), Str("[{\"name\":null}]"),
     Str("[1,\"abc\"]")}

Sources == LeafSources \cup JSONSources \cup ObjectSources \cup ArraySources \cup NestedSources

Targets == {TargetValue(Num(42)), TargetValue(Str("def")), TargetFunction("prefix"),
            TargetError("NULL")}
Conditions == {DefaultCondition, "isNull", "always", "isNegative"}

Primitives == {bigintS, stringS, intS, floatS, dateS, boolS}

ObjectSchemas ==
    {ObjectSImpl(<<>>),
     ObjectSImpl(<<Field("id", NotNullFacadeImpl(bigintS)), Field("name", stringS)>>),
     ObjectSImpl(<<Field("id", NotNullFacadeImpl(bigintS)),
                   Field("name", OptionalFacadeImpl(stringS))>>),
     ObjectSImpl(<<Field("name", NotNullFacadeImpl(stringS)), Field("child", recursiveS)>>),
     ObjectSImpl(<<Field("name", intS),
                   Field("id", OptionalFacadeImpl(
                        ByDefaultFacadeImpl(intS, TargetValue(Num(42)), DefaultCondition)))>>),
     ObjectSImpl(<<Field("id", OptionalFacadeImpl(
                        ByDefaultFacadeImpl(bigintS, TargetError("NULL"), "isNegative"))),
                   Field("name", OptionalFacadeImpl(
                        ByDefaultFacadeImpl(stringS, TargetFunction("prefix"), "always")))>>)}

ArraySchemas ==
    {ArraySImpl(NotNullFacadeImpl(stringS)),
     ArraySImpl(OptionalFacadeImpl(intS)),
     ArraySImpl(NotNullFacadeImpl(
        ObjectSImpl(<<Field("name", NotNullFacadeImpl(stringS))>>))),
     ArraySImpl(ObjectSImpl(<<Field("name", NotNullFacadeImpl(stringS))>>))}

DictionarySchemas ==
    {DictionarySImpl(intS),
     DictionarySImpl(OptionalFacadeImpl(stringS)),
     DictionarySImpl(ArraySImpl(boolS))}

BaseSchemas == Primitives \cup ObjectSchemas \cup ArraySchemas \cup DictionarySchemas

ByDefaultSchemas ==
    {ByDefaultFacadeImpl(b, target, condition) :
        b \in {stringS, intS}, target \in Targets, condition \in Conditions}

\* every schema the modifiers can build from a base schema, and recursiveS
Schemas ==
    BaseSchemas
    \cup {NotNullFacadeImpl(b) : b \in BaseSchemas}
    \cup {OptionalFacadeImpl(b) : b \in BaseSchemas}
    \cup ByDefaultSchemas
    \cup {OptionalFacadeImpl(d) : d \in ByDefaultSchemas}
    \cup {recursiveS}

----------------------------------------------------------------------------
(* A caller holding a schema calls unbox once                              *)

NoResult == [pending |-> TRUE]
EmptyStore == [sig \in {} |-> 0]

Init ==
    /\ pc = "ready"
    /\ schema \in Schemas
    /\ source \in Sources
    /\ props \in PropsSet
    /\ result = NoResult
    /\ now = 86400000
    /\ heap = <<>>
    /\ objectStore = EmptyStore
    /\ arrayStore = EmptyStore
    /\ dictionaryStore = EmptyStore
    /\ calls = <<>>
    /\ facades = EmptyStore

UnboxCall ==
    /\ pc = "ready"
    /\ result' = Unbox(schema, source, props)
    /\ pc' = "done"
    /\ UNCHANGED <<schema, source, props, now, heap,
                   objectStore, arrayStore, dictionaryStore, calls, facades>>

Next == UnboxCall

Spec == Init /\ [][Next]_vars

----------------------------------------------------------------------------
(* Signatures, as the sequence of their characters                         *)

\* the characters of the strings the signatures are made of
Chars(s) ==
    CASE s = "bigint" -> <<"b", "i", "g", "i", "n", "t">>
      [] s = "string" -> <<"s", "t", "r", "i", "n", "g">>
      [] s = "int" -> <<"i", "n", "t">>
      [] s = "float" -> <<"f", "l", "o", "a", "t">>
      [] s = "date" -> <<"d", "a", "t", "e">>
      [] s = "bool" -> <<"b", "o", "o", "l">>
      [] s = "recursive" -> <<"r", "e", "c", "u", "r", "s", "i", "v", "e">>
      [] s = "id" -> <<"i", "d">>
      [] s = "name" -> <<"n", "a", "m", "e">>
      [] s = "arr" -> <<"a", "r", "r">>
      [] s = "def" -> <<"d", "e", "f">>
      [] s = "child" -> <<"c", "h", "i", "l", "d">>
      [] s = "extra" -> <<"e", "x", "t", "r", "a">>
      [] s = "a" -> <<"a">>
      [] s = "b" -> <<"b">>
      [] s = "a.DEF" -> <<"a", ".", "D", "E", "F">>
      [] s = "a:int,b" -> <<"a", ":", "i", "n", "t", ",", "b">>
      [] s = "0" -> <<"0">>
      [] s = "1" -> <<"1">>
      [] s = "2" -> <<"2">>
      [] s = "str" -> <<"s", "t", "r">>
      [] s = "num" -> <<"n", "u", "m">>
      [] s = "dat" -> <<"d", "a", "t">>
      [] s = "defOpt" -> <<"d", "e", "f", "O", "p", "t">>
      [] s = "dict" -> <<"d", "i", "c", "t">>
      [] s = ".NN" -> <<".", "N", "N">>
      [] s = ".OPT" -> <<".", "O", "P", "T">>
      [] s = ".DEF" -> <<".", "D", "E", "F">>
      [] s = "[]" -> <<"[", "]">>
      [] s = "{[string]:" -> <<"{", "[", "s", "t", "r", "i", "n", "g", "]", ":">>
      [] s = "{" -> <<"{">>
      [] s = "}" -> <<"}">>
      [] s = ":" -> <<":">>
      [] s = "," -> <<",">>

\* String.prototype.indexOf: the first place, counted from 0, or -1
IndexOf(str, pattern) ==
    LET places == {i \in 0..(Len(str) - Len(pattern)) :
                        SubSeq(str, i + 1, i + Len(pattern)) = pattern}
    IN IF places = {} THEN -1
       ELSE CHOOSE i \in places : \A j \in places : i <= j

\* fields.map(...).join(","), from the first of `keys` on
JoinFieldSignatures(definition, keys) ==
    IF keys = <<>> THEN <<>>
    ELSE Chars(Head(keys)) \o Chars(":")
         \o GetSchemaSignature(FieldsGet(definition, Head(keys)))
         \o (IF Len(keys) > 1 THEN Chars(",") ELSE <<>>)
         \o JoinFieldSignatures(definition, Tail(keys))

\* getObjectSchemaSignature, and getSchemaSignature of a bare definition
GetObjectSchemaSignature(definition) ==
    Chars("{") \o JoinFieldSignatures(definition, ObjectKeys(definition)) \o Chars("}")

\* getTypeSchemaSignature of a schema: the facades carry the metadata of the
\* schema they wrap
GetTypeSchemaSignature(s) ==
    CASE s.kind \in {"notNull", "optional", "byDefault"} -> GetTypeSchemaSignature(s.internal)
      [] s.kind = "object" -> GetObjectSchemaSignature(s.definition)
      [] s.kind = "array" -> GetSchemaSignature(s.elements) \o Chars("[]")
      [] s.kind = "dictionary" ->
            Chars("{[string]:") \o GetSchemaSignature(s.values) \o Chars("}")
      [] OTHER -> Chars(Metadata(s).dataType)

\* getSchemaSignature writing the default-rule marker before the facade's
GetSchemaSignature_MarkerFirst(s) ==
    GetTypeSchemaSignature(s)
    \o (IF Metadata(s).hasDefaultRule THEN Chars(".DEF") ELSE <<>>)
    \o (IF Metadata(s).notNull THEN Chars(".NN")
        ELSE IF Metadata(s).optional THEN Chars(".OPT") ELSE <<>>)

\* getSchemaSignature of a schema
GetSchemaSignature(s) ==
    GetTypeSchemaSignature(s)
    \o (IF Metadata(s).notNull THEN Chars(".NN")
        ELSE IF Metadata(s).optional THEN Chars(".OPT") ELSE <<>>)
    \o (IF Metadata(s).hasDefaultRule THEN Chars(".DEF") ELSE <<>>)

\* signature.indexOf(".DEF") > 0
HasDefaultMarker(signature) == IndexOf(signature, Chars(".DEF")) > 0

----------------------------------------------------------------------------
(* The factories behind objectS, arrayS and dictionaryS. An instance is    *)
(* its place in the heap; heap[i] is what instance i was constructed from. *)

MaxCalls == 3

Call(factory, built, instance) == [factory |-> factory, built |-> built, instance |-> instance]

\* a factory that constructs and stores at every call without a default rule
GetOrCreate_Overwrites(signature, built, store) ==
    IF HasDefaultMarker(signature)
    THEN [heap |-> Append(heap, built), store |-> store, instance |-> Len(heap) + 1]
    ELSE [heap |-> Append(heap, built),
          store |-> (signature :> (Len(heap) + 1)) @@ store,
          instance |-> Len(heap) + 1]

\* getOrCreateX(argument): `signature` is the argument's signature, `built`
\* what new XImpl(argument) would construct, `store` the factory's store.
\* Gives the heap and the store afterwards and the instance returned.
GetOrCreate(signature, built, store) ==
    IF HasDefaultMarker(signature)
    THEN [heap |-> Append(heap, built), store |-> store, instance |-> Len(heap) + 1]
    ELSE IF signature \notin DOMAIN store
    THEN [heap |-> Append(heap, built),
          store |-> store @@ (signature :> (Len(heap) + 1)),
          instance |-> Len(heap) + 1]
    ELSE [heap |-> heap, store |-> store, instance |-> store[signature]]

\* the schemas a caller holds: primitives with their views, and the views of
\* the instances the factories have returned
LeafViews ==
    {NotNullFacadeImpl(intS),
     ByDefaultFacadeImpl(bigintS, TargetValue(BigIntV(0)), DefaultCondition)}

InstanceViews == {NotNullFacadeImpl(heap[i]) : i \in DOMAIN heap}

FactoryDefinitions ==
    {<<Field("id", NotNullFacadeImpl(bigintS)), Field("name", stringS)>>,
     <<Field("id", NotNullFacadeImpl(bigintS)),
       Field("def", ByDefaultFacadeImpl(bigintS, TargetValue(BigIntV(0)), DefaultCondition))>>,
     <<Field("a.DEF", stringS)>>,
     <<Field("a", intS)>>,
     <<Field("a:int,b", stringS)>>,
     <<Field("a", intS), Field("b", stringS)>>}
    \cup {<<Field("arr", v)>> : v \in InstanceViews}

ObjectS(definition) ==
    LET r == GetOrCreate(GetObjectSchemaSignature(definition), ObjectSImpl(definition),
                         objectStore)
    IN /\ Len(calls) < MaxCalls
       /\ heap' = r.heap
       /\ objectStore' = r.store
       /\ calls' = Append(calls, Call("objectS", ObjectSImpl(definition), r.instance))
       /\ UNCHANGED <<facades, pc, schema, source, props, result, now, arrayStore, dictionaryStore>>

ArrayS(elements) ==
    LET r == GetOrCreate(GetSchemaSignature(elements), ArraySImpl(elements), arrayStore)
    IN /\ Len(calls) < MaxCalls
       /\ heap' = r.heap
       /\ arrayStore' = r.store
       /\ calls' = Append(calls, Call("arrayS", ArraySImpl(elements), r.instance))
       /\ UNCHANGED <<facades, pc, schema, source, props, result, now, objectStore, dictionaryStore>>

DictionaryS(values) ==
    LET r == GetOrCreate(GetSchemaSignature(values), DictionarySImpl(values),
                         dictionaryStore)
    IN /\ Len(calls) < MaxCalls
       /\ heap' = r.heap
       /\ dictionaryStore' = r.store
       /\ calls' = Append(calls, Call("dictionaryS", DictionarySImpl(values), r.instance))
       /\ UNCHANGED <<facades, pc, schema, source, props, result, now, objectStore, arrayStore>>

\* the schemas extend is called on: the object instances and the notNull and
\* optional views of any instance
ExtendReceivers ==
    {heap[i] : i \in {j \in DOMAIN heap : heap[j].kind = "object"}}
    \cup {NotNullFacadeImpl(heap[i]) : i \in DOMAIN heap}
    \cup {OptionalFacadeImpl(heap[i]) : i \in DOMAIN heap}

ExtendDefinitions == {<<Field("name", intS)>>, <<Field("b", stringS)>>}

\* { ...fields.definition, ...definition }: a key of both keeps its place and
\* takes the later value, the new keys follow
SpreadDefinitions(fields, definition) ==
    LET Overridden(k) == \E j \in DOMAIN definition : definition[j].key = k
        IsNew(f) == \A j \in DOMAIN fields : fields[j].key # f.key
    IN [i \in DOMAIN fields |->
            IF Overridden(fields[i].key)
            THEN Field(fields[i].key, FieldsGet(definition, fields[i].key))
            ELSE fields[i]]
       \o SelectSeq(definition, IsNew)

ExtendCall(receiver, definition, built, instance) ==
    [factory |-> "extend", receiver |-> receiver, definition |-> definition,
     built |-> built, instance |-> instance]

\* the outcome of a call that threw, in place of the instance returned
Failed(error) == [error |-> error]

\* ObjectSImpl.extend, NotNullFacadeImpl.extend and OptionalFacadeImpl.extend
Extend(receiver, definition) ==
    /\ Len(calls) < MaxCalls
    /\ IF Metadata(receiver).dataType # "object"
       THEN /\ calls' = Append(calls,
                    ExtendCall(receiver, definition, receiver,
                               Failed(Error("Error", "Cannot extend non-object schema"))))
            /\ UNCHANGED <<heap, objectStore>>
       ELSE LET extended == SpreadDefinitions(BaseOf(receiver).definition, definition)
                r == GetOrCreate(GetObjectSchemaSignature(extended), ObjectSImpl(extended),
                                 objectStore)
            IN /\ heap' = r.heap
               /\ objectStore' = r.store
               /\ calls' = Append(calls, ExtendCall(receiver, definition,
                                                    ObjectSImpl(extended), r.instance))
    /\ UNCHANGED <<facades, pc, schema, source, props, result, now, arrayStore, dictionaryStore>>

InitFactory ==
    /\ pc = "done"
    /\ schema = stringS
    /\ source = Null
    /\ props = NoProps
    /\ result = Returned(Null, <<Step("unbox", "primitive")>>)
    /\ now = 86400000
    /\ heap = <<>>
    /\ objectStore = EmptyStore
    /\ arrayStore = EmptyStore
    /\ dictionaryStore = EmptyStore
    /\ calls = <<>>
    /\ facades = EmptyStore

BuildObject == \E definition \in FactoryDefinitions : ObjectS(definition)
BuildArray == \E elements \in LeafViews \cup InstanceViews : ArrayS(elements)
BuildDictionary == \E values \in LeafViews \cup InstanceViews : DictionaryS(values)
ExtendObject ==
    \E receiver \in ExtendReceivers, definition \in ExtendDefinitions :
        Extend(receiver, definition)

NextFactory == BuildObject \/ BuildArray \/ BuildDictionary \/ ExtendObject

SpecFactory == InitFactory /\ [][NextFactory]_vars

----------------------------------------------------------------------------
(* A caller takes the views of schema instances: notNull, optional,        *)
(* byDefault. An instance is its place in the heap.                        *)

\* classes in which the NotNull and Optional facades define the other view too
Offers_ChainedViews(s, member) ==
    CASE IsBase(s) -> member \in {"notNull", "optional", "byDefault"}
      [] s.kind = "byDefault" -> member = "optional"
      [] s.kind = "notNull" -> member = "optional"
      [] s.kind = "optional" -> member = "notNull"
      [] OTHER -> FALSE

\* the members the class of an instance defines
Offers(s, member) ==
    CASE IsBase(s) -> member \in {"notNull", "optional", "byDefault"}
      [] s.kind = "byDefault" -> member = "optional"
      [] OTHER -> FALSE

MemberCall(member, on, instance) == [factory |-> member, on |-> on, instance |-> instance]

\* what reading a property the object does not have gives
NoInstance == 0

\* a getter that constructs a facade at every access
GetFacade_Fresh(i, view, facade) ==
    /\ heap' = Append(heap, facade)
    /\ facades' = (<<i, view>> :> (Len(heap) + 1)) @@ facades
    /\ calls' = Append(calls, MemberCall(view, i, Len(heap) + 1))
    /\ UNCHANGED <<pc, schema, source, props, result, now,
                   objectStore, arrayStore, dictionaryStore>>

\* get notNull() / get optional(): the facade of instance i for the view,
\* constructed at the first access
GetFacade(i, view, facade) ==
    /\ IF <<i, view>> \in DOMAIN facades
       THEN /\ calls' = Append(calls, MemberCall(view, i, facades[<<i, view>>]))
            /\ UNCHANGED <<heap, facades>>
       ELSE /\ heap' = Append(heap, facade)
            /\ facades' = facades @@ (<<i, view>> :> (Len(heap) + 1))
            /\ calls' = Append(calls, MemberCall(view, i, Len(heap) + 1))
    /\ UNCHANGED <<pc, schema, source, props, result, now,
                   objectStore, arrayStore, dictionaryStore>>

\* reading a member the instance's class does not define: undefined
MissingMember(i, member) ==
    /\ calls' = Append(calls, MemberCall(member, i, NoInstance))
    /\ UNCHANGED <<pc, schema, source, props, result, now, heap,
                   objectStore, arrayStore, dictionaryStore, facades>>

\* TypeSchema.notNull
TypeSchema_notNull(i) ==
    /\ Len(calls) < MaxCalls
    /\ IF Offers(heap[i], "notNull")
       THEN GetFacade(i, "notNull", NotNullFacadeImpl(heap[i]))
       ELSE MissingMember(i, "notNull")

\* TypeSchema.optional and ByDefaultFacadeImpl.optional
TypeSchema_optional(i) ==
    /\ Len(calls) < MaxCalls
    /\ IF Offers(heap[i], "optional")
       THEN GetFacade(i, "optional", OptionalFacadeImpl(heap[i]))
       ELSE MissingMember(i, "optional")

\* TypeSchema.byDefault: a new facade at every call
TypeSchema_byDefault(i, target, condition) ==
    /\ Len(calls) < MaxCalls
    /\ IF Offers(heap[i], "byDefault")
       THEN /\ heap' = Append(heap, ByDefaultFacadeImpl(heap[i], target, condition))
            /\ calls' = Append(calls, MemberCall("byDefault", i, Len(heap) + 1))
            /\ UNCHANGED <<pc, schema, source, props, result, now,
                           objectStore, arrayStore, dictionaryStore, facades>>
       ELSE MissingMember(i, "byDefault")

\* the instances the caller starts from: two primitives, an object and an
\* array the factories have built, and the recursive placeholder
FacadeRoots ==
    <<stringS, intS,
      ObjectSImpl(<<Field("id", NotNullFacadeImpl(bigintS)), Field("name", stringS)>>),
      ArraySImpl(OptionalFacadeImpl(
            ByDefaultFacadeImpl(intS, TargetValue(Num(42)), DefaultCondition))),
      recursiveS>>

InitFacade ==
    /\ pc = "done"
    /\ schema = stringS
    /\ source = Null
    /\ props = NoProps
    /\ result = Returned(Null, <<Step("unbox", "primitive")>>)
    /\ now = 86400000
    /\ heap = FacadeRoots
    /\ objectStore = (GetObjectSchemaSignature(FacadeRoots[3].definition) :> 3)
    /\ arrayStore = EmptyStore
    /\ dictionaryStore = EmptyStore
    /\ calls = <<>>
    /\ facades = EmptyStore

AccessNotNull == \E i \in DOMAIN heap : TypeSchema_notNull(i)
AccessOptional == \E i \in DOMAIN heap : TypeSchema_optional(i)
CallByDefault ==
    \E i \in DOMAIN heap, target \in {TargetValue(Num(42)), TargetError("NULL")} :
        TypeSchema_byDefault(i, target, DefaultCondition)

NextFacade == AccessNotNull \/ AccessOptional \/ CallByDefault

SpecFacade == InitFacade /\ [][NextFacade]_vars

----------------------------------------------------------------------------
(* A caller asks for the signature of a schema                             *)

\* the schema of the signature test, and the two placements of notNull
ObjectToSignS ==
    ObjectSImpl(<<Field("str", NotNullFacadeImpl(stringS)),
                  Field("num", OptionalFacadeImpl(intS)),
                  Field("dat", dateS),
                  Field("def", ByDefaultFacadeImpl(bigintS, TargetValue(BigIntV(0)),
                                                   DefaultCondition)),
                  Field("defOpt", OptionalFacadeImpl(
                        ByDefaultFacadeImpl(stringS, TargetValue(Str("0")), DefaultCondition))),
                  Field("arr", NotNullFacadeImpl(ArraySImpl(boolS))),
                  Field("dict", NotNullFacadeImpl(DictionarySImpl(intS)))>>)

\* definitions with integer-like field names, written after a named field
IndexedDefinitions ==
    {<<Field("name", stringS), Field("0", intS)>>,
     <<Field("1", boolS), Field("name", stringS), Field("0", NotNullFacadeImpl(intS))>>}

SignedSchemas ==
    Schemas
    \cup {ObjectToSignS, NotNullFacadeImpl(ArraySImpl(boolS)), ArraySImpl(NotNullFacadeImpl(boolS)),
          DictionarySImpl(NotNullFacadeImpl(ArraySImpl(OptionalFacadeImpl(dateS))))}
    \cup {ObjectSImpl(d) : d \in IndexedDefinitions}
    \cup {ArraySImpl(OptionalFacadeImpl(ObjectSImpl(d))) : d \in IndexedDefinitions}

Signed(signature) == [signature |-> signature]

InitSignature ==
    /\ pc = "ready"
    /\ schema \in SignedSchemas
    /\ source = Null
    /\ props = NoProps
    /\ result = NoResult
    /\ now = 86400000
    /\ heap = <<>>
    /\ objectStore = EmptyStore
    /\ arrayStore = EmptyStore
    /\ dictionaryStore = EmptyStore
    /\ calls = <<>>
    /\ facades = EmptyStore

GetSchemaSignatureCall ==
    /\ pc = "ready"
    /\ result' = Signed(GetSchemaSignature(schema))
    /\ pc' = "signed"
    /\ UNCHANGED <<schema, source, props, now, heap,
                   objectStore, arrayStore, dictionaryStore, calls, facades>>

NextSignature == GetSchemaSignatureCall

SpecSignature == InitSignature /\ [][NextSignature]_vars

----------------------------------------------------------------------------
(* A caller builds schemas, takes their views and calls unbox on one of    *)
(* the instances, all against the same process-wide stores                 *)

\* the values handed to unbox: accepted and refused ones of every shape
SharedSources ==
    {Str("null"), Str("[1,\"abc\"]"),
     Obj(<<Entry("id", Num(1)), Entry("name", Str("abc"))>>),
     Obj(<<Entry("id", Null), Entry("name", Num(1))>>)}

\* the instances the factories have built before the caller starts
SharedRoots ==
    <<ObjectSImpl(<<Field("id", NotNullFacadeImpl(bigintS)), Field("name", stringS)>>),
      ArraySImpl(NotNullFacadeImpl(stringS))>>

\* an unbox that keeps the parsed text in place of the source it was given
UnboxInstance_KeepsParsed(i) ==
    /\ pc = "ready"
    /\ schema' = heap[i]
    /\ result' = Unbox(heap[i], source, props)
    /\ source' = IF IsString(source) /\ SourceConverted(source).ok
                 THEN SourceConverted(source).value ELSE source
    /\ pc' = "done"
    /\ UNCHANGED <<props, now, heap, objectStore, arrayStore, dictionaryStore,
                   calls, facades>>

\* instance.unbox(source, props): the call assigns nothing but its result
UnboxInstance(i) ==
    /\ pc = "ready"
    /\ schema' = heap[i]
    /\ result' = Unbox(heap[i], source, props)
    /\ pc' = "done"
    /\ UNCHANGED <<source, props, now, heap, objectStore, arrayStore, dictionaryStore,
                   calls, facades>>

InitShared ==
    /\ pc = "ready"
    /\ schema = stringS
    /\ source \in SharedSources
    /\ props \in {NoProps, [keepNullString |-> "true", keepUndefinedString |-> "false"]}
    /\ result = NoResult
    /\ now = 86400000
    /\ heap = SharedRoots
    /\ objectStore = (GetObjectSchemaSignature(SharedRoots[1].definition) :> 1)
    /\ arrayStore = (GetSchemaSignature(SharedRoots[2].elements) :> 2)
    /\ dictionaryStore = EmptyStore
    /\ calls = <<>>
    /\ facades = EmptyStore

UnboxOnInstance == \E i \in DOMAIN heap : UnboxInstance(i)

NextShared ==
    \/ BuildArray \/ AccessNotNull \/ AccessOptional \/ UnboxOnInstance

SpecShared == InitShared /\ [][NextShared]_vars

----------------------------------------------------------------------------
(* A caller converts numbers, bigints and numeric texts with the integer   *)
(* and floating-point schemas                                              *)

NumericSources ==
    {Num(0), Num(1), Num(42), Num(-1),
     Real(0, 3, 9), Real(0, 6, 1), Real(0, 2, 5), Real(0, 42, 5),
     Real(-1, Limb - 3, 5), Real(-1, Limb - 1, 5),
     Real(2^26 - 1, Limb - 1, 0), Real(2^26, 0, 0),
     Real(-(2^26), 1, 0), Real(-(2^26), 0, 0), Real(2^30, 0, 0),
     Infinity(1), Infinity(-1),
     BigIntV(3), BigIntV(-1), BigWide(2^26 - 1, Limb - 1), BigWide(2^26, 0),
     BigWide(-(2^26), 0), BigWide(2^30, 0),
     Str("2"), Str("3.9"), Str("6.1"), Str("2.5"), Str("-2.5"), Str("-0.5"),
     Str("42"), Str("42.5"), Str("42."), Str("42,"), Str("42,00000"), Str("42.00000"),
     Str("0x42"), Str("9007199254740991"), Str("9007199254740992"),
     Str("-9007199254740991"), Str("-9007199254740992"), Str("144115188075855872"),
     Str("Infinity"), Str("-Infinity"), Str("wrong"), Str(""),
     Null, Undefined, Str("null"), Str("undefined")}

NumericSchemas ==
    {intS, bigintS, floatS, NotNullFacadeImpl(intS), OptionalFacadeImpl(bigintS)}

InitNumeric ==
    /\ pc = "ready"
    /\ schema \in NumericSchemas
    /\ source \in NumericSources
    /\ props \in PropsSet
    /\ result = NoResult
    /\ now = 86400000
    /\ heap = <<>>
    /\ objectStore = EmptyStore
    /\ arrayStore = EmptyStore
    /\ dictionaryStore = EmptyStore
    /\ calls = <<>>
    /\ facades = EmptyStore

SpecNumeric == InitNumeric /\ [][Next]_vars

----------------------------------------------------------------------------
(* tabularInput (src/src/tabular-input.ts): a table is its header and its  *)
(* rows as splitLine cuts them, a cell being its text and the quote put    *)
(* around it ("" for none)                                                 *)

MaxRows == 2

Token(text, quote) == [text |-> text, quote |-> quote]

\* a row parser that hands every unquoted token on as text
CellValue_AlwaysText(token) ==
    IF token.quote = "\"" THEN Str(token.text)
    ELSE Str(token.quote \o token.text \o token.quote)

\* values[idx] === "null" ? null : values[idx] === "undefined" ? undefined :
\* values[idx].replace(/(^")|("$)/g, '')
CellValue(token) ==
    IF token.quote = "" /\ token.text = "null" THEN Null
    ELSE IF token.quote = "" /\ token.text = "undefined" THEN Undefined
    ELSE IF token.quote = "\"" THEN Str(token.text)
    ELSE Str(token.quote \o token.text \o token.quote)

\* header.reduce(...) over one row: the line object, or the missing-column error
TableLine(header, values, defaults, lineIdx) ==
    LET acc[i \in 0..Len(header)] ==
            IF i = 0 THEN Returned(defaults, <<>>)
            ELSE IF ~acc[i - 1].ok THEN acc[i - 1]
            ELSE IF i > Len(values)
            THEN Throw(Error("Error", "Table column " \o ToString(i) \o " missing in row "
                                      \o ToString(lineIdx)), <<>>)
            ELSE Returned(SetProperty(acc[i - 1].value, header[i], CellValue(values[i])), <<>>)
    IN acc[Len(header)]

\* transformToArray: the lines in row order, or the first error
TransformToArray(table, defaults) ==
    LET lines == [r \in DOMAIN table.rows |-> TableLine(table.header, table.rows[r], defaults, r)]
        failed == {r \in DOMAIN lines : ~lines[r].ok}
    IN IF failed = {} THEN Returned([r \in DOMAIN lines |-> lines[r].value], <<>>)
       ELSE lines[CHOOSE r \in failed : \A q \in failed : r <= q]

\* the options tabularInput hands to unbox
KeepStrings == [keepNullString |-> "true", keepUndefinedString |-> "true"]

UnboxRecord(line, p) == [factory |-> "unbox", source |-> line, props |-> p]

\* tabularInput: transformToArray(...).map(line => schema.unbox(line, ...)):
\* the unbox calls made, in order, and what the whole call gives
TabularInput(s, table, defaults) ==
    LET Collect(lines, unboxed, failed) ==
            LET last == IF failed = {} THEN Len(unboxed)
                        ELSE CHOOSE r \in failed : \A q \in failed : r <= q
            IN [calls |-> [r \in 1..last |-> UnboxRecord(lines[r], KeepStrings)],
                result |-> IF failed = {}
                           THEN Returned(Arr([r \in DOMAIN unboxed |-> unboxed[r].value]), <<>>)
                           ELSE unboxed[last]]
        Refused(unboxed) == {r \in DOMAIN unboxed : ~unboxed[r].ok}
        Map(lines, unboxed) == Collect(lines, unboxed, Refused(unboxed))
        Lines(lines) ==
            IF ~lines.ok THEN [calls |-> <<>>, result |-> lines]
            ELSE Map(lines.value, [r \in DOMAIN lines.value |-> Unbox(s, lines.value[r], KeepStrings)])
    IN Lines(TransformToArray(table, defaults))

TabularTokens ==
    {Token("null", ""), Token("null", "\""), Token("undefined", ""), Token("undefined", "\""),
     Token("42", ""), Token("good will", "\""), Token("null", "'")}

Tables ==
    [header : {<<"name", "id">>},
     rows : UNION {[1..n -> UNION {[1..k -> TabularTokens] : k \in 1..2}] : n \in 0..MaxRows}]

TabularSchemas ==
    {ObjectSImpl(<<Field("id", bigintS), Field("name", stringS)>>),
     ObjectSImpl(<<Field("id", OptionalFacadeImpl(intS)),
                   Field("name", NotNullFacadeImpl(stringS))>>)}

InitTabular ==
    /\ pc = "ready"
    /\ schema \in TabularSchemas
    /\ source \in Tables
    /\ props = NoProps
    /\ result = NoResult
    /\ now = 86400000
    /\ heap = <<>>
    /\ objectStore = EmptyStore
    /\ arrayStore = EmptyStore
    /\ dictionaryStore = EmptyStore
    /\ calls = <<>>
    /\ facades = EmptyStore

TabularInputCall ==
    /\ pc = "ready"
    /\ \E call \in {TabularInput(schema, source, Obj(<<>>))} :
            calls' = call.calls /\ result' = call.result
    /\ pc' = "done"
    /\ UNCHANGED <<schema, source, props, now, heap,
                   objectStore, arrayStore, dictionaryStore, facades>>

SpecTabular == InitTabular /\ [][TabularInputCall]_vars

----------------------------------------------------------------------------
(* apiS (ApiS.extractMetadata): an API definition is the list of its       *)
(* members in key order, a member being a function-call definition (the    *)
(* keys written in it) or a sub-API                                        *)

FunctionCall(fields, hidden) == [member |-> "function", fields |-> fields, hidden |-> hidden]
SubApi(definition) == [member |-> "api", definition |-> definition]

RECURSIVE ExtractMetadata(_, _, _, _), ExtractMembers(_, _, _, _, _)

\* the Object.keys(definition).forEach of extractMetadata, from member i on:
\* the implementation built, or the first error thrown
ExtractMembers(definition, metadataName, parentPath, p, i) ==
    IF i > Len(definition) THEN Returned(<<>>, <<>>)
    ELSE LET key == definition[i].key
             field == definition[i].value
             path == parentPath \o metadataName \o "/" \o key
             invalid == {j \in DOMAIN field.fields :
                            field.fields[j] \notin {"args", "retVal", "hidden"}}
             member ==
                IF field.member = "function"
                THEN IF invalid # {}
                     THEN Throw(Error("Error",
                            "Invalid field "
                            \o field.fields[CHOOSE j \in invalid : \A k \in invalid : j <= k]
                            \o " in " \o metadataName \o "/" \o key), <<>>)
                     ELSE Returned([name |-> key, path |-> path, dataType |-> "function",
                                    hidden |-> IF field.hidden = "unset" THEN p.hidden
                                               ELSE field.hidden], <<>>)
                ELSE LET child == ExtractMetadata(field.definition, key,
                                                  parentPath \o metadataName \o "/", p)
                     IN IF ~child.ok THEN child
                        ELSE Returned([name |-> key, path |-> path, dataType |-> "api",
                                       metadata |-> child.value], <<>>)
             rest == ExtractMembers(definition, metadataName, parentPath, p, i + 1)
         IN IF ~member.ok THEN member
            ELSE IF ~rest.ok THEN rest
            ELSE Returned(<<member.value>> \o rest.value, <<>>)

\* ApiS.extractMetadata(definition, metadataName, parentPath, props)
ExtractMetadata(definition, metadataName, parentPath, p) ==
    LET impl == ExtractMembers(definition, metadataName, parentPath, p, 1)
    IN IF ~impl.ok THEN impl
       ELSE Returned([dataType |-> "api", implementation |-> impl.value,
                      name |-> metadataName, path |-> parentPath \o metadataName,
                      hidden |-> p.hidden], <<>>)

\* the function-call definitions written: well-formed ones and ones with a
\* misspelt or additional key
FunctionCalls ==
    {FunctionCall(<<"args">>, "unset"), FunctionCall(<<"args", "retVal", "hidden">>, "true"),
     FunctionCall(<<"args", "retval">>, "unset"),
     FunctionCall(<<"args", "extra", "retval">>, "unset")}

ApiDefinitions ==
    {<<Entry("meow", meow),
       Entry("child", SubApi(<<Entry("guau", guau),
                               Entry("inner", SubApi(<<Entry("purr", purr)>>))>>))>> :
        meow \in FunctionCalls, guau \in FunctionCalls, purr \in FunctionCalls}

InitApi ==
    /\ pc = "ready"
    /\ schema = stringS
    /\ source \in ApiDefinitions
    /\ props \in [hidden : {"unset", "true"}]
    /\ result = NoResult
    /\ now = 86400000
    /\ heap = <<>>
    /\ objectStore = EmptyStore
    /\ arrayStore = EmptyStore
    /\ dictionaryStore = EmptyStore
    /\ calls = <<>>
    /\ facades = EmptyStore

\* apiS(definition, props): new ApiS(...) runs extractMetadata(definition, "", "", props)
ApiSCall ==
    /\ pc = "ready"
    /\ result' = ExtractMetadata(source, "", "", props)
    /\ pc' = "done"
    /\ UNCHANGED <<schema, source, props, now, heap,
                   objectStore, arrayStore, dictionaryStore, calls, facades>>

SpecApi == InitApi /\ [][ApiSCall]_vars

----------------------------------------------------------------------------
(* A caller converts objects with schemas whose fields fail one by one,    *)
(* some of them named like array indices                                   *)

OrderedSchemas ==
    {ObjectSImpl(<<Field("name", NotNullFacadeImpl(stringS)), Field("0", intS)>>),
     ObjectSImpl(<<Field("1", boolS), Field("name", stringS),
                   Field("0", NotNullFacadeImpl(intS))>>),
     ObjectSImpl(<<Field("id", NotNullFacadeImpl(bigintS)),
                   Field("name", ByDefaultFacadeImpl(stringS, TargetFunction("prefix"), "always")),
                   Field("0", OptionalFacadeImpl(
                        ByDefaultFacadeImpl(bigintS, TargetError("NULL"), "isNegative")))>>),
     ObjectSImpl(<<Field("id", NotNullFacadeImpl(bigintS)), Field("name", intS),
                   Field("extra", ByDefaultFacadeImpl(intS, TargetError("NULL"),
                                                      DefaultCondition))>>)}

\* objects holding any of the keys 0, 1, id, name
OrderedSources ==
    LET absent == [t |-> "absent"]
        values == {absent, Null, Str("abc"), Num(-1)}
        Present(e) == e.value # absent
    IN {Obj(SelectSeq(<<Entry("0", a), Entry("1", b), Entry("id", c), Entry("name", d)>>,
                      Present)) :
            a \in values, b \in values, c \in values, d \in values}

InitOrdered ==
    /\ pc = "ready"
    /\ schema \in OrderedSchemas
    /\ source \in OrderedSources
    /\ props \in {NoProps, [keepNullString |-> "true", keepUndefinedString |-> "false"]}
    /\ result = NoResult
    /\ now = 86400000
    /\ heap = <<>>
    /\ objectStore = EmptyStore
    /\ arrayStore = EmptyStore
    /\ dictionaryStore = EmptyStore
    /\ calls = <<>>
    /\ facades = EmptyStore

SpecOrdered == InitOrdered /\ [][Next]_vars

----------------------------------------------------------------------------
(* Properties                                                              *)

Done == pc = "done"

\* what the caller sees of a result: the value returned or the error thrown
Outcome(r) == IF r.ok THEN [ok |-> TRUE, value |-> r.value]
              ELSE [ok |-> FALSE, error |-> r.error]

Returns(v) == result.ok /\ result.value = v
Raises(e) == ~result.ok /\ result.error = e

HasStep(log, ev) == \E i \in DOMAIN log : log[i].ev = ev
CountSteps(log, ev) == Cardinality({i \in DOMAIN log : log[i].ev = ev})

\* C1: a base schema (primitive, object, array, dictionary) returns null for
\* null and for "null" unless keepNullString is true; otherwise raises
\* FieldMissing for undefined and for "undefined" when keepUndefinedString is
\* false; otherwise returns what the schema's own convert gives. Without
\* options "null" gives null and "undefined" is converted like any string.
C1_BaseUnboxContract ==
    (Done /\ IsBase(schema)) =>
        /\ IF source = Null \/ (source = Str("null") /\ props.keepNullString # "true")
           THEN Returns(Null) /\ ~HasStep(result.log, "convert")
           ELSE IF source = Undefined
                   \/ (source = Str("undefined") /\ props.keepUndefinedString = "false")
           THEN Raises(FieldMissingError) /\ ~HasStep(result.log, "convert")
           ELSE /\ Outcome(result) = Outcome(Convert(schema, source, props))
                /\ result.log[2] = Step("convert", Metadata(schema).dataType)
        /\ (props = NoProps /\ source = Str("null")) => Returns(Null)
        /\ (props = NoProps /\ source = Str("undefined")) =>
                /\ HasStep(result.log, "convert")
                /\ schema = stringS => Returns(Str("undefined"))

C1_Witness ==
    /\ Done /\ IsBase(schema) /\ schema.kind = "object"
    /\ source = Str("undefined") /\ props.keepUndefinedString = "false"
    /\ props.keepNullString = "true"
    /\ Raises(FieldMissingError)

IsByDefault(s) ==
    s.kind = "byDefault" \/ (s.kind = "optional" /\ s.internal.kind = "byDefault")

\* the ByDefault node of a ByDefault schema or of its Optional view
ByDefaultNode(s) == IF s.kind = "byDefault" THEN s ELSE s.internal

\* C2 as stated: unbox(null) returns null for every schema that is not
\* NotNull, and raises NullNotAllowed for a NotNull one.
C2_Original ==
    (Done /\ source = Null) =>
        IF schema.kind = "notNull" THEN Raises(NullNotAllowedError) ELSE Returns(Null)

\* C2: unbox(null) raises NullNotAllowed for a NotNull schema and returns
\* null for a base schema and for the Optional view of one; a ByDefault
\* schema (and its Optional view) evaluates its condition on null first and
\* gives the target resolution when it matches, null when it does not, the
\* condition's own error when it throws; recursiveS raises its own error.
C2_Nullability ==
    (Done /\ source = Null) =>
        /\ schema.kind = "notNull" => Raises(NullNotAllowedError)
        /\ (IsBase(schema) \/ (schema.kind = "optional" /\ IsBase(schema.internal))) =>
                Returns(Null)
        /\ IsByDefault(schema) =>
                LET d == ByDefaultNode(schema)
                    c == Condition(d.condition, Null)
                IN /\ d.condition = DefaultCondition => (c.ok /\ c.value)
                   /\ IF ~c.ok THEN Raises(c.error)
                      ELSE IF c.value
                      THEN Outcome(result) = Outcome(TargetCheck(d.target, Null))
                      ELSE Returns(Null)
        /\ schema.kind = "recursive" =>
                Raises(Error("Error", "Recursive schema cannot be unboxed directly"))

C2_Witness ==
    /\ Done /\ source = Null
    /\ schema.kind = "byDefault" /\ schema.condition = DefaultCondition
    /\ Returns(Num(42))

C5_ByDefaultSemantics ==
    (Done /\ schema.kind = "byDefault") =>
        LET c == Condition(schema.condition, source)
        IN /\ result.log[1] = Step("unbox", "byDefault")
           /\ result.log[2] = Step("condition", schema.condition)
           /\ schema.condition = DefaultCondition =>
                (c.ok /\ (c.value <=> (source = Null \/ source = Undefined)))
           /\ (c.ok /\ c.value) =>
                /\ ~HasStep(Tail(result.log), "unbox")
                /\ CASE schema.target.type = "value" -> Returns(schema.target.value)
                     [] schema.target.type = "function" ->
                            Returns(Str("prefix-" \o JSToString(source)))
                     [] schema.target.type = "error" ->
                            Raises(Error("Error", schema.target.message))
           /\ (c.ok /\ ~c.value) =>
                Outcome(result) = Outcome(Unbox(schema.internal, source, props))

C5_Witness ==
    /\ Done /\ schema.kind = "byDefault" /\ schema.condition = "always"
    /\ source = Null /\ schema.target.type = "function"
    /\ Returns(Str("prefix-null"))

\* byDefault(d).optional with a constant d and the default condition
IsDefaultedOptional(s) ==
    /\ s.kind = "optional" /\ s.internal.kind = "byDefault"
    /\ s.internal.condition = DefaultCondition
    /\ s.internal.target.type = "value"

C8_SuppressionBoundary ==
    Done =>
        /\ (schema.kind = "optional" /\ Len(result.log) > 1) =>
                LET inner == Unbox(schema.internal, source, props)
                IN /\ SubSeq(result.log, 2, 1 + Len(inner.log)) = inner.log
                   /\ ~inner.ok =>
                        IF source = Undefined THEN Returns(Undefined)
                        ELSE Raises(inner.error)
        /\ \A i \in DOMAIN result.log :
                result.log[i].ev = "suppress" => result.log[i].at = "undefined"
        /\ CountSteps(result.log, "throw")
                = CountSteps(result.log, "suppress") + (IF result.ok THEN 0 ELSE 1)

C8_Witness ==
    /\ Done /\ schema.kind = "optional" /\ schema.internal.kind = "byDefault"
    /\ source = Str("undefined") /\ props.keepUndefinedString = "false"
    /\ Raises(FieldMissingError)

IsObjectView(s) ==
    s.kind = "object" \/ (s.kind \in {"notNull", "optional"} /\ s.internal.kind = "object")

\* the object schema behind an object schema or a view of one
ObjectOf(s) == IF s.kind = "object" THEN s ELSE s.internal

DeclaredKeys(o) == {o.definition[i].key : i \in DOMAIN o.definition}

\* an object source with the properties that are no declared field taken away
WithoutUndeclared(src, o) ==
    LET IsDeclared(e) == e.key \in DeclaredKeys(o)
    IN IF src.t = "object" THEN Obj(SelectSeq(src.entries, IsDeclared)) ELSE src

\* what converting field i of object schema o gives for the object source src
FieldResult(o, i, src, p) ==
    LET f == o.definition[i]
        boxedField == GetProperty(src, f.key)
    IN IF f.schema.kind = "recursive"
       THEN IF boxedField = Undefined \/ boxedField = Null
            THEN Returned(Undefined, <<>>)
            ELSE Unbox(o, boxedField, p)
       ELSE Unbox(f.schema, boxedField, p)

\* C9: a successful Object.unbox gives an object whose keys are declared
\* fields; a field whose schema gives undefined is left out, so no key holds
\* undefined; properties of the source that are no declared field do not
\* appear and change neither the result nor the error.
C9_ObjectOutputShape ==
    (Done /\ IsObjectView(schema)) =>
        LET o == ObjectOf(schema)
        IN /\ (result.ok /\ result.value.t = "object") =>
                /\ Keys(result.value) \subseteq DeclaredKeys(o)
                /\ \A i \in DOMAIN result.value.entries :
                        result.value.entries[i].value # Undefined
                /\ source.t = "object" =>
                        \A i \in DOMAIN o.definition :
                            LET r == FieldResult(o, i, source, props)
                            IN (r.ok /\ r.value = Undefined) =>
                                    o.definition[i].key \notin Keys(result.value)
           /\ source.t = "object" =>
                Outcome(result) = Outcome(Unbox(schema, WithoutUndeclared(source, o), props))

C9_Witness ==
    /\ Done /\ schema.kind = "object"
    /\ source = Obj(<<Entry("id", Num(1)), Entry("extra", Num(42))>>)
    /\ DeclaredKeys(schema) = {"id", "name"}
    /\ Returns(Obj(<<Entry("id", BigIntV(1))>>))

\* neither optional nor defaulted: a base schema or its NotNull view
IsRequired(s) == IsBase(s) \/ s.kind = "notNull"

MissingRequired(o, src) ==
    {i \in DOMAIN o.definition :
        IsRequired(o.definition[i].schema) /\ ~HasKey(src, o.definition[i].key)}

FieldMissingMessage(key) == "Unboxing " \o key \o ", value: undefined: Field missing"

SimpleRecordS ==
    ObjectSImpl(<<Field("id", NotNullFacadeImpl(bigintS)), Field("name", stringS)>>)

HasDefaultRule(s) ==
    CASE s.kind = "byDefault" -> TRUE
      [] s.kind \in {"notNull", "optional"} -> HasDefaultRule(s.internal)
      [] s.kind = "object" ->
            \E i \in DOMAIN s.definition : HasDefaultRule(s.definition[i].schema)
      [] s.kind = "array" -> HasDefaultRule(s.elements)
      [] s.kind = "dictionary" -> HasDefaultRule(s.values)
      [] OTHER -> FALSE

\* the definition objectS was called with, the schema arrayS or dictionaryS was
ArgumentOf(built) ==
    CASE built.kind = "object" -> built
      [] built.kind = "array" -> built.elements
      [] built.kind = "dictionary" -> built.values

\* C4: two calls of objectS, arrayS or dictionaryS with the same definition
\* return the same instance when the definition holds no default/validation
\* rule at any depth, and two different instances when it holds one.
C4_IdempotentCaching ==
    \A i, j \in DOMAIN calls :
        (i < j /\ calls[i].factory \in {"objectS", "arrayS", "dictionaryS"}
               /\ calls[i].factory = calls[j].factory /\ calls[i].built = calls[j].built) =>
            IF HasDefaultRule(ArgumentOf(calls[i].built))
            THEN calls[i].instance # calls[j].instance
            ELSE calls[i].instance = calls[j].instance

----------------------------------------------------------------------------
(* Errors of nested conversions                                            *)

\* the schema under the facades
BaseOf(s) == IF s.kind \in {"notNull", "optional", "byDefault"} THEN BaseOf(s.internal) ELSE s

Child(at, what, raw, childSchema) ==
    [at |-> at, what |-> what, raw |-> raw, schema |-> childSchema]

\* the fields, elements or keys a structured schema b converts in the value v,
\* each with its name in error messages, its raw value and the schema used
Children(b, v) ==
    CASE b.kind = "object" /\ v.t \notin {"null", "undefined"} ->
            {Child(b.definition[i].key, b.definition[i].key, GetProperty(v, b.definition[i].key),
                   IF b.definition[i].schema.kind = "recursive" THEN b
                   ELSE b.definition[i].schema) :
                i \in {j \in DOMAIN b.definition :
                          b.definition[j].schema.kind = "recursive" =>
                              GetProperty(v, b.definition[j].key) \notin {Null, Undefined}}}
      [] b.kind = "array" /\ v.t = "array" ->
            {Child(i, "array element " \o ToString(i - 1), v.elements[i], b.elements) :
                i \in DOMAIN v.elements}
      [] b.kind = "dictionary" /\ v.t = "object" ->
            {Child(v.entries[i].key, "dictionary element " \o v.entries[i].key, v.entries[i].value, b.values) :
                i \in DOMAIN v.entries}
      [] OTHER -> {}

ContextPrefix(c) == "Unboxing " \o c.what \o ", value: " \o JSONBigStringify(c.raw) \o ": "

LastStep(r) == r.log[Len(r.log)]

\* the message of the failed call r of s.unbox(src, p) is the leaf error's
\* message behind one context prefix per enclosing level, outermost first
Composed(s, src, p, r) ==
    IF LastStep(r).ev = "rethrow"
    THEN \E c \in Children(BaseOf(s), SourceConverted(src).value) :
            LET cr == Unbox(c.schema, c.raw, p)
            IN /\ ~cr.ok
               /\ r.error.message = ContextPrefix(c) \o cr.error.message
               /\ Composed(c.schema, c.raw, p, cr)
    ELSE LastStep(r).ev = "throw"

NamedRecordsS == ArraySImpl(ObjectSImpl(<<Field("name", NotNullFacadeImpl(stringS))>>))

\* C11: the message of an error raised inside nested Object / Array /
\* Dictionary schemas is one context prefix per enclosing level, outermost
\* first, followed by the leaf error's message; [{"name": null}] against
\* arrayS(objectS({name: stringS.notNull})) names array element 0, then the
\* field name, then "Null not allowed".
C11_BreadcrumbComposition ==
    (Done /\ ~result.ok) =>
        /\ Composed(schema, source, props, result)
        /\ (schema = NamedRecordsS /\ source = Str("[{\"name\":null}]")) =>
                result.error.message =
                    "Unboxing array element 0, value: {\"name\":null}: "
                    \o "Unboxing name, value: null: " \o "Null not allowed"

C11_Witness ==
    /\ Done
    /\ schema = NamedRecordsS
    /\ source = Str("[{\"name\":null}]")
    /\ ~result.ok
    /\ CountSteps(result.log, "rethrow") = 2

IsStructured(s) == s.kind \in {"object", "array", "dictionary"}

\* the fields, elements or keys the call of schema.unbox(source, props) converts
Converted == Children(BaseOf(schema), SourceConverted(source).value)

\* the value holds what every child's conversion gave
Complete(value, kids) ==
    CASE value.t = "array" ->
            /\ Len(value.elements) = Cardinality(kids)
            /\ \A c \in kids : value.elements[c.at] = Unbox(c.schema, c.raw, props).value
      [] value.t = "object" ->
            \A c \in kids :
                LET v == Unbox(c.schema, c.raw, props).value
                IN (BaseOf(schema).kind = "dictionary" \/ v # Undefined) =>
                        HasKey(value, c.at) /\ ValueOf(value, c.at) = v
      [] OTHER -> FALSE

\* C12: when the conversion of a declared field, an element or a key of an
\* Object, Array or Dictionary raises an error no optional facade suppresses,
\* the enclosing unbox call raises and returns no value; a value that is
\* returned holds the result of every field, element or key.
C12_AllOrNothing ==
    (Done /\ IsStructured(BaseOf(schema)) /\ HasStep(result.log, "convert")
          /\ SourceConverted(source).ok) =>
        /\ (\E c \in Converted : ~Unbox(c.schema, c.raw, props).ok) => ~result.ok
        /\ result.ok =>
              /\ \A c \in Converted : Unbox(c.schema, c.raw, props).ok
              /\ Complete(result.value, Converted)

\* the second of two elements fails after the first was converted
C12_Witness ==
    /\ Done
    /\ schema = ArraySImpl(NotNullFacadeImpl(stringS))
    /\ source = Arr(<<Str("abc"), Null>>)
    /\ ~result.ok
    /\ CountSteps(result.log, "convert") = 2

\* the keys of the object schema o that are declared as recursiveS
RecursiveKeys(o) ==
    {o.definition[i].key : i \in {j \in DOMAIN o.definition :
                                      o.definition[j].schema.kind = "recursive"}}

TreeS == ObjectSImpl(<<Field("name", NotNullFacadeImpl(stringS)), Field("child", recursiveS)>>)

\* C13: for an object field declared as recursiveS a present, non-null raw
\* value is converted by the enclosing object schema's own unbox and the
\* result is assigned to the key; an absent or null raw value writes no key;
\* recursiveS.unbox called directly raises for every input.
C13_RecursivePlaceholder ==
    /\ (Done /\ schema.kind = "recursive") =>
            Raises(Error("Error", "Recursive schema cannot be unboxed directly"))
    /\ (Done /\ BaseOf(schema).kind = "object" /\ HasStep(result.log, "convert")
             /\ SourceConverted(source).ok
             /\ SourceConverted(source).value.t \notin {"null", "undefined"}) =>
            \A k \in RecursiveKeys(BaseOf(schema)) :
                LET raw == GetProperty(SourceConverted(source).value, k)
                    own == Unbox(BaseOf(schema), raw, props)
                IN IF raw \in {Null, Undefined}
                   THEN result.ok => ~HasKey(result.value, k)
                   ELSE /\ result.ok =>
                            /\ own.ok
                            /\ HasKey(result.value, k)
                            /\ ValueOf(result.value, k) = own.value
                        /\ ~own.ok => ~result.ok
                        /\ (\A c \in Converted : Unbox(c.schema, c.raw, props).ok) => result.ok

\* two nested levels converted by the same field map
C13_Witness ==
    /\ Done
    /\ schema = TreeS
    /\ result.ok
    /\ result.value.t = "object"
    /\ HasKey(result.value, "child")
    /\ ValueOf(result.value, "child") =
            Obj(<<Entry("name", Str("b")), Entry("child", Obj(<<Entry("name", Str("c"))>>))>>)

IsExtendCall(c) == c.factory = "extend" /\ Metadata(c.receiver).dataType = "object"

\* the field map `fields` is F overlaid with G: the names of both, G's schema
\* for a name of G and F's for the others, the names of F in F's order
IsOverlay(fields, F, G) ==
    LET Names(d) == {d[i].key : i \in DOMAIN d}
        InF(f) == f.key \in Names(F)
        Key(f) == f.key
        KeysOf(d) == [i \in DOMAIN d |-> d[i].key]
    IN /\ Names(fields) = Names(F) \cup Names(G)
       /\ Len(fields) = Cardinality(Names(fields))
       /\ \A k \in Names(fields) :
            FieldsGet(fields, k) = IF k \in Names(G) THEN FieldsGet(G, k) ELSE FieldsGet(F, k)
       /\ KeysOf(SelectSeq(fields, InF)) = KeysOf(F)

\* C14: O.extend(G), O.notNull.extend(G) and O.optional.extend(G) return an
\* Object schema without facade (notNull and optional both false) whose field
\* map is O's field map overlaid with G, G's schema winning on a shared name
\* and the fields of O keeping their declaration order.
C14_Extend ==
    \A i \in DOMAIN calls :
        IsExtendCall(calls[i]) =>
            LET returned == heap[calls[i].instance]
            IN /\ returned.kind = "object"
               /\ ~Metadata(returned).notNull
               /\ ~Metadata(returned).optional
               /\ IsOverlay(returned.definition, BaseOf(calls[i].receiver).definition,
                            calls[i].definition)

----------------------------------------------------------------------------
(* Signatures                                                              *)

IsSigned == pc = "signed"

\* the concatenation of a sequence of sequences
Flatten(parts) == IF parts = <<>> THEN <<>> ELSE Head(parts) \o Flatten(Tail(parts))

\* the names of a definition as they were written
DeclarationOrder(definition) == [i \in DOMAIN definition |-> definition[i].key]

\* `{f1:sig1,f2:sig2,...}` with the fields in the order `names`
ObjectFormat(definition, names) ==
    Chars("{")
    \o Flatten([i \in DOMAIN names |->
            Chars(names[i]) \o Chars(":")
            \o GetSchemaSignature(FieldsGet(definition, names[i]))
            \o (IF i < Len(names) THEN Chars(",") ELSE <<>>)])
    \o Chars("}")

\* the suffixes of a facade chain
Suffixes(s) ==
    (IF s.kind = "notNull" THEN Chars(".NN")
     ELSE IF s.kind = "optional" THEN Chars(".OPT") ELSE <<>>)
    \o (IF IsByDefault(s) THEN Chars(".DEF") ELSE <<>>)

\* the signature has the documented format, the fields of an object schema
\* being listed in the order Order(definition)
HasFormat(sig, s, Order(_)) ==
    LET b == BaseOf(s)
    IN sig = (CASE b.kind = "primitive" -> Chars(b.dataType)
                [] b.kind = "recursive" -> Chars("recursive") \o Chars(".OPT")
                [] b.kind = "object" -> ObjectFormat(b.definition, Order(b.definition))
                [] b.kind = "array" -> GetSchemaSignature(b.elements) \o Chars("[]")
                [] b.kind = "dictionary" ->
                      Chars("{[string]:") \o GetSchemaSignature(b.values) \o Chars("}"))
             \o Suffixes(s)

TestSignature ==
    <<"{", "s", "t", "r", ":", "s", "t", "r", "i", "n", "g", ".", "N", "N",
      ",", "n", "u", "m", ":", "i", "n", "t", ".", "O", "P", "T", ",", "d",
      "a", "t", ":", "d", "a", "t", "e", ",", "d", "e", "f", ":", "b", "i",
      "g", "i", "n", "t", ".", "D", "E", "F", ",", "d", "e", "f", "O", "p",
      "t", ":", "s", "t", "r", "i", "n", "g", ".", "O", "P", "T", ".", "D",
      "E", "F", ",", "a", "r", "r", ":", "b", "o", "o", "l", "[", "]", ".",
      "N", "N", ",", "d", "i", "c", "t", ":", "{", "[", "s", "t", "r", "i",
      "n", "g", "]", ":", "i", "n", "t", "}", ".", "N", "N", "}">>

\* C15 as stated: the fields of an object are signed in declaration order
C15_Original == IsSigned => HasFormat(result.signature, schema, DeclarationOrder)

\* C15: getSchemaSignature is `{f1:sig1,f2:sig2,...}` for an object, its fields
\* in Object.keys order (integer-like names first, ascending, then the other
\* names in declaration order), `<elem-sig>[]` for an array,
\* `{[string]:<value-sig>}` for a dictionary and the dataType tag for a
\* primitive, followed by `.NN` if not-null, else `.OPT` if optional, then
\* `.DEF` if the schema carries a default rule; arrayS(boolS).notNull signs as
\* `bool[].NN`, arrayS(boolS.notNull) as `bool.NN[]`, byDefault(..).optional as
\* `<type>.OPT.DEF`.
C15_SignatureFormat ==
    IsSigned =>
        /\ result.signature = GetSchemaSignature(schema)
        /\ HasFormat(result.signature, schema, ObjectKeys)
        /\ schema = NotNullFacadeImpl(ArraySImpl(boolS)) =>
                result.signature = Chars("bool") \o Chars("[]") \o Chars(".NN")
        /\ schema = ArraySImpl(NotNullFacadeImpl(boolS)) =>
                result.signature = Chars("bool") \o Chars(".NN") \o Chars("[]")
        /\ (schema.kind = "optional" /\ schema.internal.kind = "byDefault") =>
                result.signature = Chars(schema.internal.internal.dataType)
                                   \o Chars(".OPT") \o Chars(".DEF")
        /\ schema = ObjectToSignS => result.signature = TestSignature

\* the signature of a definition that declares "0" after "name"
C15_Witness ==
    /\ IsSigned
    /\ schema = ObjectSImpl(<<Field("name", stringS), Field("0", intS)>>)
    /\ result.signature = Chars("{") \o Chars("0") \o Chars(":") \o Chars("int") \o Chars(",")
                          \o Chars("name") \o Chars(":") \o Chars("string") \o Chars("}")

----------------------------------------------------------------------------
(* Arrays and dictionaries                                                 *)

\* the base contract hands the source to convert
ReachesConvert == ~IsNullSource(source, props) /\ ~IsUndefinedSource(source, props)

\* what the call converts: the source, or what the JSON text in it stands for
Parsed == SourceConverted(source)

\* the children whose conversion raises
Failing == {c \in Converted : ~Unbox(c.schema, c.raw, props).ok}

ElementError(c) ==
    Error("Error", ContextPrefix(c) \o Unbox(c.schema, c.raw, props).error.message)

\* what C16 says of a source that is a sequence
ElementsConverted ==
    IF Failing = {}
    THEN /\ result.ok
         /\ result.value.t = "array"
         /\ Len(result.value.elements) = Len(Parsed.value.elements)
         /\ \A i \in DOMAIN Parsed.value.elements :
                result.value.elements[i] =
                    Unbox(schema.elements, Parsed.value.elements[i], props).value
    ELSE \E c \in Failing :
            /\ \A d \in Failing : c.at <= d.at
            /\ c.what = "array element " \o ToString(c.at - 1)
            /\ Raises(ElementError(c))

\* C16: Array.unbox of a source the shared base contract hands to convert: a
\* source that, after JSON parsing when it is a string, is no ordered
\* sequence raises JSONArrayNotFound (a string that is no JSON text raises
\* the parser's error); otherwise the result is a sequence of the same length
\* whose i-th element is the element schema's unbox of the i-th source
\* element, in order, and an element error is raised again with the
\* zero-based index and the raw value in its message.
C16_ArrayUnbox ==
    (Done /\ schema.kind = "array" /\ ReachesConvert) =>
        IF ~Parsed.ok THEN Raises(Parsed.error)
        ELSE IF Parsed.value.t # "array" THEN Raises(JSONArrayNotFoundError)
        ELSE ElementsConverted

C16_Witness ==
    /\ Done
    /\ schema = ArraySImpl(NotNullFacadeImpl(stringS))
    /\ source = Arr(<<Str("abc"), Null>>)
    /\ Raises(Error("Error", "Unboxing array element 1, value: null: Null not allowed"))

\* the keys of the value the dictionary call converts
SourceKeys == IF Parsed.value.t = "object" THEN Keys(Parsed.value) ELSE {}

\* what C17 says of a source that is a keyed structure
ValuesConverted ==
    IF Failing = {}
    THEN /\ result.ok
         /\ result.value.t = "object"
         /\ Keys(result.value) = SourceKeys
         /\ \A k \in SourceKeys :
                ValueOf(result.value, k) =
                    Unbox(schema.values, ValueOf(Parsed.value, k), props).value
    ELSE \E c \in Failing :
            /\ c.what = "dictionary element " \o c.at
            /\ Raises(ElementError(c))

\* C17: Dictionary.unbox of a source the shared base contract hands to
\* convert: a source that, after JSON parsing when it is a string, is an
\* ordered sequence or is not an object raises SourceNotObject; otherwise the
\* result has exactly the source's keys, each mapped to the value schema's
\* unbox of the source value, and a value error is raised again with the key
\* name and the raw value in its message.
C17_DictionaryUnbox ==
    (Done /\ schema.kind = "dictionary" /\ ReachesConvert /\ Parsed.ok) =>
        IF Parsed.value.t \notin {"object", "date"} THEN Raises(SourceNotObjectError)
        ELSE ValuesConverted

----------------------------------------------------------------------------
(* Facades                                                                 *)

\* the schema and every schema inside it
Nodes(s) ==
    {s} \cup
    (CASE s.kind \in {"notNull", "optional", "byDefault"} -> Nodes(s.internal)
       [] s.kind = "object" -> UNION {Nodes(s.definition[i].schema) : i \in DOMAIN s.definition}
       [] s.kind = "array" -> Nodes(s.elements)
       [] s.kind = "dictionary" -> Nodes(s.values)
       [] OTHER -> {})

\* the instances the calls so far have constructed
Constructed == {i \in DOMAIN heap : i > Len(FacadeRoots)}

\* C18: metadata.notNull and metadata.optional are never both true; a NotNull
\* facade has notNull true and optional false, an Optional facade notNull
\* false and optional true, a base or ByDefault schema both false.
C18_MetadataInvariant ==
    \A i \in DOMAIN heap : \A n \in Nodes(heap[i]) :
        LET m == Metadata(n)
        IN /\ ~(m.notNull /\ m.optional)
           /\ n.kind = "notNull" => (m.notNull /\ ~m.optional)
           /\ n.kind = "optional" => (~m.notNull /\ m.optional)
           /\ (IsBase(n) \/ n.kind = "byDefault") => (~m.notNull /\ ~m.optional)

\* a NotNull facade, a ByDefault facade and the Optional view of a ByDefault
\* facade have been constructed
C18_Witness ==
    /\ \E i \in Constructed : heap[i].kind = "notNull"
    /\ \E i \in Constructed : heap[i].kind = "byDefault"
    /\ \E i \in Constructed : heap[i].kind = "optional" /\ heap[i].internal.kind = "byDefault"

IsViewAccess(c) == c.factory \in {"notNull", "optional"} /\ c.instance # NoInstance

\* C19: every access of S.notNull returns the same object and every access
\* of S.optional returns the same object, for a base schema instance S; so
\* does every access of D.optional for a ByDefault instance D. A facade is
\* constructed at most once per instance and view, whatever the number and
\* the order of the accesses.
C19_FacadeMemoization ==
    /\ \A i, j \in DOMAIN calls :
            (IsViewAccess(calls[i]) /\ IsViewAccess(calls[j])
             /\ calls[i].on = calls[j].on /\ calls[i].factory = calls[j].factory) =>
                calls[i].instance = calls[j].instance
    /\ \A i \in DOMAIN calls :
            IsViewAccess(calls[i]) =>
                heap[calls[i].instance] =
                    IF calls[i].factory = "notNull" THEN NotNullFacadeImpl(heap[calls[i].on])
                    ELSE OptionalFacadeImpl(heap[calls[i].on])
    /\ Cardinality(Constructed) =
            Cardinality({<<calls[i].on, calls[i].factory>> :
                            i \in {j \in DOMAIN calls : IsViewAccess(calls[j])}})
            + Cardinality({i \in DOMAIN calls :
                            calls[i].factory = "byDefault" /\ calls[i].instance # NoInstance})

\* the optional view of a ByDefault instance read twice
C19_Witness ==
    \E i, j \in DOMAIN calls :
        /\ i < j
        /\ IsViewAccess(calls[i]) /\ calls[i].factory = "optional"
        /\ heap[calls[i].on].kind = "byDefault"
        /\ calls[j] = calls[i]

\* the shapes the modifiers may build
IsFacadeState(s) ==
    \/ IsBase(s)
    \/ s.kind = "recursive"
    \/ s.kind \in {"notNull", "optional", "byDefault"} /\ IsBase(s.internal)
    \/ s.kind = "optional" /\ s.internal.kind = "byDefault" /\ IsBase(s.internal.internal)

\* C20: from a base schema the only modifier transitions are Base -> NotNull,
\* Base -> Optional, Base -> ByDefault and ByDefault -> ByDefault.Optional;
\* NotNull and Optional facades offer no notNull, optional or byDefault, and
\* a ByDefault facade offers optional only, so no chain such as
\* notNull.optional, optional.notNull, notNull.byDefault or byDefault.notNull
\* is ever built.
C20_FacadeStateMachine ==
    /\ \A i \in DOMAIN heap : IsFacadeState(heap[i])
    /\ \A i \in DOMAIN calls :
            LET c == calls[i]
                s == heap[c.on]
            IN /\ s.kind \in {"notNull", "optional"} => c.instance = NoInstance
               /\ (s.kind = "byDefault" /\ c.factory # "optional") => c.instance = NoInstance
               /\ (IsBase(s) \/ (s.kind = "byDefault" /\ c.factory = "optional")) =>
                    /\ c.instance # NoInstance
                    /\ heap[c.instance].kind = c.factory
                    /\ heap[c.instance].internal = s

\* a NotNull facade was asked for its optional view, and a ByDefault facade
\* was built
C20_Witness ==
    /\ \E i \in DOMAIN calls :
            /\ heap[calls[i].on].kind = "notNull"
            /\ calls[i].factory = "optional"
            /\ calls[i].instance = NoInstance
    /\ \E i \in Constructed : heap[i].kind = "byDefault"

\* C21: an unbox call, whether it returns or raises, leaves the three factory
\* stores, every instance constructed (its metadata and field map), the
\* memoized facades and the source it was given as they were: it assigns
\* only its result
IsUnboxStep == pc = "ready" /\ pc' = "done"

IsNumericInput == source.t \in {"number", "bigint", "string"} /\ ReachesConvert

\* ten times (the integer n minus the number x), for n and x less than ten apart
TenTimesOffset(n, x) == 10 * ((Hi(n) - Hi(x)) * Limb + (Lo(n) - Lo(x))) - Tenths(x)

\* n is the integer nearest to x, a half going up
IsNearest(n, x) ==
    /\ Inf(n) = 0 /\ Tenths(n) = 0
    /\ Hi(n) - Hi(x) \in {-1, 0, 1}
    /\ TenTimesOffset(n, x) > -5
    /\ TenTimesOffset(n, x) <= 5

\* the number x is at least 2^53 - 1/2 or below -(2^53) + 1/2: its nearest
\* integer is outside the safe range
RoundsOutside(x) ==
    \/ Inf(x) # 0
    \/ Hi(x) >= 2^26
    \/ Hi(x) = 2^26 - 1 /\ Lo(x) = Limb - 1 /\ Tenths(x) >= 5
    \/ Hi(x) < -(2^26)
    \/ Hi(x) = -(2^26) /\ Lo(x) = 0 /\ Tenths(x) < 5

IntegerPart(x) == MakeBigInt(Hi(x), Lo(x) + (IF Hi(x) < 0 /\ Tenths(x) # 0 THEN 1 ELSE 0))

C23_BigintTruncates ==
    (Done /\ schema = bigintS) =>
        /\ source \in {Str("42.5"), Str("42."), Str("42,"), Str("42,00000"), Str("42.00000"),
                        Real(0, 42, 5)}
                => Returns(BigIntV(42))
        /\ source = Str("0x42") => Returns(BigIntV(66))
        /\ (source.t = "number" /\ Inf(source) = 0 /\ Tenths(source) # 0)
                => Returns(IntegerPart(source))


\* C24 as stated: an unquoted null or undefined cell reaches the schema's
\* unbox as the text "null" / "undefined", unbox being called with both keep
\* flags
IsUnquoted(token, text) == token.quote = "" /\ token.text = text

C24_Original ==
    Done =>
        \A r \in DOMAIN calls : \A c \in DOMAIN source.header :
            /\ calls[r].props = KeepStrings
            /\ IsUnquoted(source.rows[r][c], "null")
                    => GetProperty(calls[r].source, source.header[c]) = Str("null")
            /\ IsUnquoted(source.rows[r][c], "undefined")
                    => GetProperty(calls[r].source, source.header[c]) = Str("undefined")

\* C24, amended: an unquoted null cell reaches unbox as null and an unquoted
\* undefined cell as undefined; a double-quoted cell reaches it as its text
\* without the quotes, "null" and "undefined" included, and unbox, called with
\* both keep flags, converts that text as a string like any other
C24_TabularCells ==
    Done =>
        \A r \in DOMAIN calls : \A c \in DOMAIN source.header :
            LET token == source.rows[r][c]
                cell == GetProperty(calls[r].source, source.header[c])
            IN /\ calls[r].props = KeepStrings
               /\ IsUnquoted(token, "null") => cell = Null
               /\ IsUnquoted(token, "undefined") => cell = Undefined
               /\ token.quote = "\"" => cell = Str(token.text)
               /\ (result.ok /\ schema.definition[2].schema = stringS /\ c = 1)
                    => GetProperty(result.value.elements[r], "name") =
                            (IF IsUnquoted(token, "null") THEN Null ELSE cell)

C24_Witness ==
    /\ Done /\ result.ok
    /\ Len(calls) = 2
    /\ IsUnquoted(source.rows[1][1], "null")
    /\ source.rows[2][1] = Token("null", "\"")
    /\ GetProperty(result.value.elements[1], "name") = Null
    /\ GetProperty(result.value.elements[2], "name") = Str("null")


\* C25: when a function-call definition at any depth of the API tree has a
\* key other than args, retVal or hidden, apiS raises an error whose message
\* is "Invalid field <key> in <path>", <path> being the names of the APIs
\* around the function from the root down and the function's name, joined by
\* slashes (the unnamed root counted or not)
RECURSIVE FunctionsOf(_, _)
FunctionsOf(definition, prefix) ==
    UNION {IF definition[i].value.member = "function"
           THEN {[path |-> prefix \o definition[i].key, fields |-> definition[i].value.fields]}
           ELSE FunctionsOf(definition[i].value.definition,
                            prefix \o definition[i].key \o "/")
           : i \in DOMAIN definition}

InvalidFields(f) == {f.fields[j] : j \in {k \in DOMAIN f.fields :
                                            f.fields[k] \notin {"args", "retVal", "hidden"}}}

C25_InvalidFieldPath ==
    (Done /\ \E f \in FunctionsOf(source, "") : InvalidFields(f) # {}) =>
        /\ ~result.ok
        /\ \E f \in FunctionsOf(source, "") : \E fld \in InvalidFields(f) :
                result.error.message \in {"Invalid field " \o fld \o " in " \o f.path,
                                          "Invalid field " \o fld \o " in /" \o f.path}


\* C26: after any sequence of objectS, arrayS and dictionaryS calls (extend
\* included), every entry of a factory's store is held under the signature of
\* the definition its instance was built from and no key contains ".DEF"; no
\* call replaces or removes an entry; a call whose signature is in the store
\* returns the stored instance, and a call with a default-rule signature
\* leaves the store as it was
SignatureOf(built) ==
    IF built.kind = "object" THEN GetObjectSchemaSignature(built.definition)
    ELSE GetSchemaSignature(ArgumentOf(built))

StoreOf(kind) ==
    CASE kind = "object" -> objectStore
      [] kind = "array" -> arrayStore
      [] kind = "dictionary" -> dictionaryStore

StoresSound ==
    \A kind \in {"object", "array", "dictionary"} : \A sig \in DOMAIN StoreOf(kind) :
        /\ StoreOf(kind)[sig] \in DOMAIN heap
        /\ heap[StoreOf(kind)[sig]].kind = kind
        /\ SignatureOf(heap[StoreOf(kind)[sig]]) = sig
        /\ IndexOf(sig, Chars(".DEF")) = -1

\* the call a step makes, when it is a call that reaches a factory
IsFactoryStep ==
    /\ Len(calls') = Len(calls) + 1
    /\ calls'[Len(calls')].built.kind \in {"object", "array", "dictionary"}

C26_CacheInvariant ==
    /\ []StoresSound
    /\ [][/\ \A kind \in {"object", "array", "dictionary"} : \A sig \in DOMAIN StoreOf(kind) :
                sig \in DOMAIN StoreOf(kind)' /\ StoreOf(kind)'[sig] = StoreOf(kind)[sig]
          /\ IsFactoryStep =>
                \A call \in {calls'[Len(calls')]} : \A sig \in {SignatureOf(call.built)} :
                    /\ sig \in DOMAIN StoreOf(call.built.kind)
                            => call.instance = StoreOf(call.built.kind)[sig]
                    /\ IndexOf(sig, Chars(".DEF")) # -1 =>
                            /\ UNCHANGED <<objectStore, arrayStore, dictionaryStore>>
                            /\ call.instance \notin DOMAIN heap]_vars

C26_Witness ==
    /\ Len(calls) = 3
    /\ calls[1].instance = calls[2].instance
    /\ \A i \in 1..3 : calls[i].factory = "objectS"
    /\ IndexOf(SignatureOf(calls[3].built), Chars(".DEF")) # -1
    /\ DOMAIN objectStore = {SignatureOf(calls[1].built)}
    /\ calls[3].instance \in DOMAIN heap


\* C27: two objectS calls with definitions free of default rules return the
\* same instance only if the definitions have the same field names, in the
\* same order, with the same field schemas, also when a field name holds ":"
\* or ","
C27_InjectiveKeys ==
    \A i, j \in DOMAIN calls :
        (/\ calls[i].factory = "objectS" /\ calls[j].factory = "objectS"
         /\ ~HasDefaultRule(calls[i].built) /\ ~HasDefaultRule(calls[j].built)
         /\ calls[i].instance = calls[j].instance)
            => calls[i].built = calls[j].built


\* C28 as stated: the fields are converted in the order the definition was
\* written in, up to the first one that raises; the error carries that
\* field's context and no schema of a later field is invoked
RECURSIVE FieldLogs(_, _)

\* the unbox of the field named order[k], on its raw value
FieldRun(order, k) ==
    Unbox(FieldsGet(schema.definition, order[k]), GetProperty(source, order[k]), props)

\* the steps of the fields order[1] .. order[k], one field after the other
FieldLogs(order, k) ==
    IF k = 0 THEN <<>> ELSE FieldLogs(order, k - 1) \o FieldRun(order, k).log

\* the call converted the fields in the given order and stopped at the first
\* failure
ConvertsInOrder(order) ==
    LET failing == {k \in DOMAIN order : ~FieldRun(order, k).ok}
        first == CHOOSE k \in failing : \A j \in failing : k <= j
        entry == <<Step("unbox", "object"), Step("convert", "object")>>
    IN IF failing = {}
       THEN result.ok /\ result.log = entry \o FieldLogs(order, Len(order))
       ELSE /\ ~result.ok
            /\ result.error = Rewrap(order[first], GetProperty(source, order[first]),
                                     FieldRun(order, first).error)
            /\ result.log = entry \o FieldLogs(order, first) \o <<Step("rethrow", "object")>>

DeclaredOrder == [i \in DOMAIN schema.definition |-> schema.definition[i].key]

C28_Original == Done => ConvertsInOrder(DeclaredOrder)

\* C28, amended: the fields are converted in the key order of the definition
\* object (names like array indices first, ascending, then the other names
\* in the order written), up to the first one that raises; the error carries
\* that field's context and no schema of a later field is invoked
C28_FieldOrder == Done => ConvertsInOrder(ObjectKeys(schema.definition))

C28_Witness ==
    /\ Done /\ ~result.ok
    /\ DeclaredOrder # ObjectKeys(schema.definition)
    /\ Cardinality({k \in DOMAIN DeclaredOrder : ~FieldRun(DeclaredOrder, k).ok}) >= 2
    /\ \E k \in DOMAIN schema.definition :
            /\ HasDefaultRule(schema.definition[k].schema)
            /\ ~FieldRun(DeclaredOrder, k).ok

\* a ByDefault facade built by byDefault(d) with a constant d and the default
\* condition
IsConstantDefault(s) ==
    s.kind = "byDefault" /\ s.condition = DefaultCondition /\ s.target.type = "value"

\* C29: byDefault(d) with the default condition yields d for null and for
\* undefined, but for the string "null" (keepNullString not true) it does not
\* apply the default and yields null: the condition sees the raw source, the
\* base contract maps "null" to null afterwards
C29_NullStringNotDefaulted ==
    (Done /\ IsConstantDefault(schema)) =>
        /\ source \in {Null, Undefined} =>
                Returns(schema.target.value) /\ HasStep(result.log, "target")
        /\ (source = Str("null") /\ props.keepNullString # "true") =>
                /\ Returns(Null)
                /\ ~HasStep(result.log, "target")
                /\ result.log[Len(result.log)] = Step("unbox", schema.internal.kind)

C29_Witness ==
    /\ Done /\ IsConstantDefault(schema)
    /\ source = Str("null") /\ props.keepNullString = "false"
    /\ Returns(Null) /\ schema.target.value # Null

\* C30: with keepUndefinedString false, the Optional view of a schema without
\* default rule returns undefined for the string "undefined", while the
\* Optional view of byDefault(d) with the default condition raises
\* FieldMissingError: no short-circuit, the condition does not match the
\* string, the base contract raises and the error is not suppressed
C30_UndefinedStringOnOptional ==
    (/\ Done /\ schema.kind = "optional"
     /\ props.keepUndefinedString = "false" /\ source = Str("undefined")) =>
        /\ ~Metadata(schema.internal).hasDefaultRule =>
                Returns(Undefined) /\ result.log = <<Step("unbox", "optional")>>
        /\ (/\ schema.internal.kind = "byDefault"
            /\ schema.internal.condition = DefaultCondition) =>
                /\ Raises(FieldMissingError)
                /\ HasStep(result.log, "condition")
                /\ ~HasStep(result.log, "target")
                /\ ~HasStep(result.log, "suppress")

C30_Witness ==
    /\ Done /\ schema.kind = "optional" /\ IsConstantDefault(schema.internal)
    /\ props.keepUndefinedString = "false" /\ source = Str("undefined")
    /\ props.keepNullString = "unset"
    /\ Raises(FieldMissingError)


====
